---- MODULE Spec2Model ----
(***************************************************************************)
(* Model of the E3 automation tools labelling engine:                      *)
(*   lib/e3_wire_numbering.py     WireNumberAssigner                       *)
(*   lib/e3_device_designation.py DeviceDesignationManager                 *)
(*                                                                         *)
(* A Python string is a sequence of one-character strings, so that the     *)
(* parsing done by wire_number_sort_key and the stripping done by          *)
(* calculate_wire_number are computed character by character.              *)
(***************************************************************************)
EXTENDS Integers, Sequences, FiniteSets, TLC

VARIABLES
    pc,          \* position of the running automation
    snap,        \* wire numbering: what the collaborator answers (read only)
    wire,        \* wire numbering: locals of process_connections
    attr,        \* net segment id -> value of its "Wire number" attribute
    writes,      \* history of SetAttributeValue / SetName calls, in order
    dsnap,       \* device designation: what the collaborator answers
    dev,         \* device designation: locals of process_devices
    names,       \* device id -> device name
    codec,       \* inputs and results of the position codec functions
    previous,    \* what the run before the current one left behind, if any
    session,     \* run(): whether E3 can be reached and what run() returned
    term,        \* terminal pin names: the terminals, their pins and the pin names
    gui          \* the window: running_operation, the worker threads, the log

vars == <<pc, snap, wire, attr, writes, dsnap, dev, names, codec, previous,
          session, term, gui>>

shellVars == <<session, term, gui>>

\* everything but the position of the automation and the codec
runVars == <<snap, wire, attr, writes, dsnap, dev, names, previous, shellVars>>

----------------------------------------------------------------------------
(* Characters and strings *)

UpperSeq == <<"A", "B", "C", "D", "E", "F", "G", "H", "I", "J", "K", "L", "M",
              "N", "O", "P", "Q", "R", "S", "T", "U", "V", "W", "X", "Y", "Z">>

LowerSeq == <<"a", "b", "c", "d", "e", "f", "g", "h", "i", "j", "k", "l", "m",
              "n", "o", "p", "q", "r", "s", "t", "u", "v", "w", "x", "y", "z">>

DigitSeq == <<"0", "1", "2", "3", "4", "5", "6", "7", "8", "9">>

Digits == {DigitSeq[n] : n \in 1..10}

UpperLetters == {UpperSeq[n] : n \in 1..26}

LowerLetters == {LowerSeq[n] : n \in 1..26}

\* "sup2" stands for the single character U+00B2: str.isdigit() is true for
\* it and int() raises ValueError on it.
SuperscriptTwo == "sup2"

Whitespace == {" "}

\* ord(c) for the characters the model uses
Ord(c) ==
    CASE c = " " -> 32
      [] c = "." -> 46
      [] c = "/" -> 47
      [] c \in Digits -> 47 + (CHOOSE n \in 1..10 : DigitSeq[n] = c)
      [] c \in UpperLetters -> 64 + (CHOOSE n \in 1..26 : UpperSeq[n] = c)
      [] c = "[" -> 91
      [] c \in LowerLetters -> 96 + (CHOOSE n \in 1..26 : LowerSeq[n] = c)
      [] c = SuperscriptTwo -> 178

\* chr(n) for the code points the suffix computation can produce
Chr(n) ==
    IF n \in 65..90 THEN UpperSeq[n - 64]
    ELSE IF n \in 97..122 THEN LowerSeq[n - 96]
    ELSE "["

isdigit(c) == c \in Digits \cup {SuperscriptTwo}

isalpha(c) == c \in UpperLetters \cup LowerLetters

\* str.lower()
Lower(s) == [i \in 1..Len(s) |-> IF s[i] \in UpperLetters THEN Chr(Ord(s[i]) + 32) ELSE s[i]]

\* None and a raised exception, as values of a string-typed result
None == <<"<None>">>

Raises == <<"<raises>">>

\* Python truthiness of an optional string
Truthy(s) == s # None /\ s # <<>>

\* str < str : lexicographic by code point
RECURSIVE StrLess(_, _)
StrLess(a, b) ==
    IF b = <<>> THEN FALSE
    ELSE IF a = <<>> THEN TRUE
    ELSE IF Ord(Head(a)) < Ord(Head(b)) THEN TRUE
    ELSE IF Ord(Head(a)) > Ord(Head(b)) THEN FALSE
    ELSE StrLess(Tail(a), Tail(b))

\* str.strip()
RECURSIVE LStrip(_)
LStrip(s) == IF s # <<>> /\ Head(s) \in Whitespace THEN LStrip(Tail(s)) ELSE s

RECURSIVE RStrip(_)
RStrip(s) ==
    IF s # <<>> /\ s[Len(s)] \in Whitespace THEN RStrip(SubSeq(s, 1, Len(s) - 1)) ELSE s

Strip(s) == RStrip(LStrip(s))

\* int(s) for a string of decimal digits
RECURSIVE ToInt(_)
ToInt(s) ==
    IF s = <<>> THEN 0
    ELSE 10 * ToInt(SubSeq(s, 1, Len(s) - 1)) + (Ord(s[Len(s)]) - 48)

\* length of the longest prefix of s whose characters satisfy the test
RECURSIVE DigitRun(_)
DigitRun(s) == IF s # <<>> /\ isdigit(Head(s)) THEN 1 + DigitRun(Tail(s)) ELSE 0

RECURSIVE AlphaRun(_)
AlphaRun(s) == IF s # <<>> /\ isalpha(Head(s)) THEN 1 + AlphaRun(Tail(s)) ELSE 0

\* s.split(".")[-1]
RECURSIVE LastPart(_)
LastPart(s) ==
    IF s = <<>> THEN <<>>
    ELSE IF s[Len(s)] = "." THEN <<>>
    ELSE LastPart(SubSeq(s, 1, Len(s) - 1)) \o <<s[Len(s)]>>

Contains(s, c) == \E i \in 1..Len(s) : s[i] = c

----------------------------------------------------------------------------
(* Position codec of the wire numbering library *)

\* The fallback key of the except branch
SentinelKey(wire_num) == <<999999, <<"Z", "Z", "Z">>, 999999, wire_num>>

wire_number_sort_key(wire_num) ==
    LET i == DigitRun(wire_num)
        page_part == SubSeq(wire_num, 1, i)
        grid_part == SubSeq(wire_num, i + 1, Len(wire_num))
        j == AlphaRun(grid_part)
        grid_leading_alpha == SubSeq(grid_part, 1, j)
        after_alpha == SubSeq(grid_part, j + 1, Len(grid_part))
        k == DigitRun(after_alpha)
        grid_num_part == SubSeq(after_alpha, 1, k)
        grid_trailing_alpha == SubSeq(after_alpha, k + 1, Len(after_alpha))
    IN  IF Contains(page_part, SuperscriptTwo)
        THEN SentinelKey(wire_num)                     \* int(page_part) raises
        ELSE IF Contains(grid_num_part, SuperscriptTwo)
        THEN SentinelKey(wire_num)                     \* int(grid_num_part) raises
        ELSE <<ToInt(page_part), grid_leading_alpha,
               ToInt(grid_num_part), grid_trailing_alpha>>

\* tuple < tuple for the keys (int, str, int, str)
KeyLess(k1, k2) ==
    \/ k1[1] < k2[1]
    \/ k1[1] = k2[1] /\ StrLess(k1[2], k2[2])
    \/ k1[1] = k2[1] /\ k1[2] = k2[2] /\ k1[3] < k2[3]
    \/ k1[1] = k2[1] /\ k1[2] = k2[2] /\ k1[3] = k2[3] /\ StrLess(k1[4], k2[4])

\* calculate_wire_number without the "0" default for a missing page
calculate_wire_number_no_default(page_number, grid_position) ==
    (IF ~Truthy(page_number) THEN <<>> ELSE Strip(page_number)) \o grid_position

calculate_wire_number(page_number, grid_position) ==
    LET page_num == IF ~Truthy(page_number) \/ Strip(page_number) = <<>>
                    THEN <<"0">>
                    ELSE Strip(page_number)
    IN  page_num \o grid_position

extract_grid_position(grid_desc, column, row) ==
    IF Truthy(grid_desc) /\ Contains(grid_desc, ".") THEN LastPart(grid_desc)
    ELSE IF Truthy(column) /\ Truthy(row) THEN column \o row
    ELSE IF Truthy(column) THEN column
    ELSE IF Truthy(row) THEN row
    ELSE <<"U", "N", "K", "N", "O", "W", "N">>

----------------------------------------------------------------------------
(* The project the collaborator serves to the wire numbering run.          *)
(* Sheets, pins and nets are fixed tables; a snapshot is a list of         *)
(* connections (ids 1..n in the order GetAllConnectionIds returns them),   *)
(* each on one net and joining a list of pins.                             *)

MaxConns == 3

\* e3Sheet.GetName() by sheet id
SheetName ==
    <<  <<"1">>,                       \* sheet 1
        <<"2">>,                       \* sheet 2
        <<"1", "0">>,                  \* sheet 3
        <<"1", "A", "5", ".">>,        \* sheet 4
        Raises,                        \* sheet 5: GetName raises
        <<"0">>  >>                    \* sheet 6

\* e3Pin.GetSchemaLocation() by pin id: (sheet_id, x, y, grid_desc, column, row)
PinLocation ==
    <<  [sheet |-> 1, x |-> 200, y |-> 50,  grid_desc |-> <<"/", "1", ".", "A", "5">>,
         column |-> <<"A">>, row |-> <<"5">>],
        [sheet |-> 1, x |-> 100, y |-> 100, grid_desc |-> <<"/", "1", ".", "A", "5">>,
         column |-> <<"A">>, row |-> <<"5">>],
        [sheet |-> 1, x |-> 100, y |-> 50,  grid_desc |-> <<"/", "1", ".", "A", "5">>,
         column |-> <<"A">>, row |-> <<"5">>],
        [sheet |-> 3, x |-> 10,  y |-> 20,  grid_desc |-> <<"/", "1", "0", ".", "A", "5">>,
         column |-> <<"A">>, row |-> <<"5">>],
        [sheet |-> 2, x |-> 30,  y |-> 40,  grid_desc |-> <<>>,
         column |-> <<"B">>, row |-> <<"7">>],
        [sheet |-> 4, x |-> 60,  y |-> 70,  grid_desc |-> <<>>,
         column |-> <<"A">>, row |-> <<>>],
        [sheet |-> 0, x |-> 0,   y |-> 0,   grid_desc |-> <<>>,
         column |-> <<>>, row |-> <<>>],
        [sheet |-> 5, x |-> 80,  y |-> 90,  grid_desc |-> <<"/", "5", ".", "A", "5">>,
         column |-> <<"A">>, row |-> <<"5">>],
        [sheet |-> 1, x |-> 300, y |-> 10,  grid_desc |-> <<>>,
         column |-> <<>>, row |-> <<>>]  >>

PinIds == 1..Len(PinLocation)

\* e3Net by net id: the signal of its connections, the result of
\* GetAttributeValue("FixWireName"), whether writing the "Wire number" of
\* the net's trunk segment raises, and whether the write returns 0 and
\* leaves the attribute as it was
NetTable ==
    <<  [signal |-> "S1", fix |-> <<>>,      locked |-> FALSE, refuses |-> FALSE],
        [signal |-> "S1", fix |-> <<"1">>,   locked |-> FALSE, refuses |-> FALSE],
        [signal |-> "S2", fix |-> <<"0">>,   locked |-> FALSE, refuses |-> FALSE],
        [signal |-> "S3", fix |-> <<>>,      locked |-> FALSE, refuses |-> FALSE],
        [signal |-> "S2", fix |-> <<>>,      locked |-> TRUE, refuses |-> FALSE],
        [signal |-> "S3", fix |-> Raises,    locked |-> FALSE, refuses |-> FALSE],
        [signal |-> "S1", fix |-> <<"F", "a", "l", "s", "e">>, locked |-> FALSE, refuses |-> FALSE],
        [signal |-> "S2", fix |-> <<" ", "n", "o", " ">>,      locked |-> FALSE, refuses |-> FALSE],
        [signal |-> "S3", fix |-> <<" ">>,                     locked |-> FALSE, refuses |-> FALSE],
        [signal |-> "S1", fix |-> <<"Y", "E", "S">>,           locked |-> FALSE, refuses |-> FALSE],
        [signal |-> "S2", fix |-> None,                        locked |-> FALSE, refuses |-> FALSE],
        [signal |-> "S3", fix |-> <<>>,                        locked |-> FALSE, refuses |-> FALSE],
        [signal |-> "S1", fix |-> <<>>,      locked |-> FALSE, refuses |-> TRUE],
        [signal |-> "S2", fix |-> <<>>,      locked |-> TRUE, refuses |-> FALSE]  >>

NetIds == 1..Len(NetTable)

\* the nets with the rarer FixWireName values and pin placements; projects
\* made of them are explored on their own
RareNetIds == 7..14

\* the pin lists a connection on each net may have
PinListsOf(net) ==
    CASE net = 1 -> {<<1>>, <<4, 5>>, <<7>>, <<7, 1>>}
      [] net = 2 -> {<<3>>}
      [] net = 3 -> {<<2>>, <<1>>}
      [] net = 4 -> {<<3>>, <<6>>, <<3, 8>>}
      [] net = 5 -> {<<2>>}
      [] net = 6 -> {<<1>>}
      [] net = 7 -> {<<1>>, <<7>>}
      [] net = 8 -> {<<2>>}
      [] net = 9 -> {<<3>>}
      [] net = 10 -> {<<2>>}
      [] net = 11 -> {<<1>>, <<8, 3>>}
      [] net = 12 -> {<<9>>}
      [] net = 13 -> {<<1>>}
      [] net = 14 -> {<<2>>}

\* a connection: its net (0: the connection has no valid net id), the result
\* of GetSignalName and its pins
ConnChoices ==
    UNION {{[net |-> n, signal |-> NetTable[n].signal, pins |-> pl] :
              pl \in PinListsOf(n)} : n \in NetIds \ RareNetIds}
    \cup {[net |-> 0, signal |-> "S2", pins |-> <<2>>],
          [net |-> 0, signal |-> "",   pins |-> <<1>>]}

\* net segment ids: segment n is the trunk of net n, segment
\* Len(NetTable) + c belongs to connection c alone
TrunkSegment(net) == net

OwnSegment(c) == Len(NetTable) + c

SegmentIds == 1..(Len(NetTable) + MaxConns)

\* the "Wire number" every net segment carries before the run
OldWireNumber == <<"O", "L", "D">>

WireSnapshots ==
    UNION {[1..n -> ConnChoices] : n \in 0..MaxConns}

RareConnChoices ==
    UNION {{[net |-> n, signal |-> NetTable[n].signal, pins |-> pl] :
              pl \in PinListsOf(n)} : n \in RareNetIds}

RareSnapshots ==
    UNION {[1..n -> RareConnChoices] : n \in 0..MaxConns}

----------------------------------------------------------------------------
(* Collaborator queries of the wire numbering run *)

GetNetId(c) == snap[c].net

GetSignalName(c) == snap[c].signal

GetPinIds(c) == snap[c].pins

GetNetSegmentIds(c) ==
    IF snap[c].net = 0 THEN <<OwnSegment(c)>>
    ELSE <<TrunkSegment(snap[c].net), OwnSegment(c)>>

SetAttributeValueRaises(seg) == \E n \in NetIds : seg = TrunkSegment(n) /\ NetTable[n].locked

SetAttributeValueRefused(seg) == \E n \in NetIds : seg = TrunkSegment(n) /\ NetTable[n].refuses


----------------------------------------------------------------------------
(* Helpers of WireNumberAssigner *)

\* get_pin_location_info giving no location when the sheet name or the grid
\* position is not known
get_pin_location_info_known_only(pin_id) ==
    LET result == PinLocation[pin_id]
        NoLocation == [page_number |-> None, grid_position |-> None, sheet_id |-> 0,
                       x_coord |-> 0, y_coord |-> 0]
        grid_position == extract_grid_position(result.grid_desc, result.column, result.row)
    IN  IF result.sheet <= 0 THEN NoLocation
        ELSE IF SheetName[result.sheet] = Raises THEN NoLocation
        ELSE IF grid_position = <<"U", "N", "K", "N", "O", "W", "N">> THEN NoLocation
        ELSE [page_number   |-> SheetName[result.sheet],
              grid_position |-> grid_position,
              sheet_id      |-> result.sheet,
              x_coord       |-> result.x,
              y_coord       |-> result.y]

\* (page_number, grid_position, sheet_id, x_coord, y_coord), or all None
get_pin_location_info(pin_id) ==
    LET result == PinLocation[pin_id]
        NoLocation == [page_number |-> None, grid_position |-> None, sheet_id |-> 0,
                       x_coord |-> 0, y_coord |-> 0]
    IN  IF result.sheet <= 0 THEN NoLocation
        ELSE [page_number   |-> IF SheetName[result.sheet] = Raises
                                THEN <<"U", "N", "K", "N", "O", "W", "N">>
                                ELSE SheetName[result.sheet],
              grid_position |-> extract_grid_position(result.grid_desc, result.column,
                                                      result.row),
              sheet_id      |-> result.sheet,
              x_coord       |-> result.x,
              y_coord       |-> result.y]

\* the wire_data list of one pin list, in pin order
RECURSIVE WireDataOfPins(_)
WireDataOfPins(pin_ids) ==
    IF pin_ids = <<>> THEN <<>>
    ELSE LET pin_id == Head(pin_ids)
             info == get_pin_location_info(pin_id)
         IN  (IF pin_id # 0 /\ info.page_number # None /\ info.grid_position # None
              THEN << [wire_number |-> calculate_wire_number(info.page_number,
                                                             info.grid_position),
                       x_coord |-> info.x_coord,
                       y_coord |-> info.y_coord,
                       pin_id  |-> pin_id] >>
              ELSE <<>>)
             \o WireDataOfPins(Tail(pin_ids))

get_connection_wire_numbers_and_positions(connection_id) ==
    WireDataOfPins(GetPinIds(connection_id))

get_net_segments_for_connection(connection_id) ==
    SelectSeq(GetNetSegmentIds(connection_id), LAMBDA nsid : nsid # 0)

\* FixValueIsSet comparing the stripped value as it is spelled
FixValueIsSetCaseSensitive(fix_wire_name) ==
    /\ Truthy(fix_wire_name)
    /\ Strip(fix_wire_name) \notin
          {<<>>, <<"0">>, <<"f", "a", "l", "s", "e">>, <<"n", "o">>}

\* str(fix_wire_name).strip().lower() not in ['', '0', 'false', 'no']
FixValueIsSet(fix_wire_name) ==
    /\ Truthy(fix_wire_name)
    /\ Lower(Strip(fix_wire_name)) \notin
          {<<>>, <<"0">>, <<"f", "a", "l", "s", "e">>, <<"n", "o">>}

\* has_fix_wire_name_attribute of a run that ignores the FixWireName flag
has_fix_wire_name_attribute_never(connection_id) == FALSE

\* has_fix_wire_name_attribute treating a check it cannot complete as a
\* set flag
has_fix_wire_name_attribute_cautious(connection_id) ==
    LET net_id == GetNetId(connection_id)
    IN  IF net_id <= 0 THEN TRUE
        ELSE IF NetTable[net_id].fix = Raises THEN TRUE
        ELSE FixValueIsSet(NetTable[net_id].fix)

has_fix_wire_name_attribute(connection_id) ==
    LET net_id == GetNetId(connection_id)
    IN  IF net_id <= 0 THEN FALSE
        ELSE IF NetTable[net_id].fix = Raises THEN FALSE
        ELSE FixValueIsSet(NetTable[net_id].fix)

\* list.sort(key=...) is stable: an element goes before the first element
\* whose key is strictly greater
\* InsertByWireKey comparing the wire numbers as plain strings
RECURSIVE InsertByWireString(_, _)
InsertByWireString(sorted, e) ==
    IF sorted = <<>> THEN <<e>>
    ELSE IF StrLess(e.wire_number, Head(sorted).wire_number) THEN <<e>> \o sorted
    ELSE <<Head(sorted)>> \o InsertByWireString(Tail(sorted), e)

RECURSIVE InsertByWireKey(_, _)
InsertByWireKey(sorted, e) ==
    IF sorted = <<>> THEN <<e>>
    ELSE IF KeyLess(wire_number_sort_key(e.wire_number),
                    wire_number_sort_key(Head(sorted).wire_number))
    THEN <<e>> \o sorted
    ELSE <<Head(sorted)>> \o InsertByWireKey(Tail(sorted), e)

RECURSIVE SortByWireKey(_)
SortByWireKey(all_wire_data) ==
    IF all_wire_data = <<>> THEN <<>>
    ELSE InsertByWireKey(SortByWireKey(SubSeq(all_wire_data, 1, Len(all_wire_data) - 1)),
                         all_wire_data[Len(all_wire_data)])

\* PositionLess comparing y before x
PositionLessYFirst(a, b) ==
    \/ a.y_coord < b.y_coord
    \/ a.y_coord = b.y_coord /\ a.x_coord < b.x_coord

\* (x_coord, y_coord) < (x_coord, y_coord)
PositionLess(a, b) ==
    \/ a.x_coord < b.x_coord
    \/ a.x_coord = b.x_coord /\ a.y_coord < b.y_coord

RECURSIVE InsertByPosition(_, _)
InsertByPosition(sorted, e) ==
    IF sorted = <<>> THEN <<e>>
    ELSE IF PositionLess(e, Head(sorted)) THEN <<e>> \o sorted
    ELSE <<Head(sorted)>> \o InsertByPosition(Tail(sorted), e)

RECURSIVE SortByPosition(_)
SortByPosition(signals) ==
    IF signals = <<>> THEN <<>>
    ELSE InsertByPosition(SortByPosition(SubSeq(signals, 1, Len(signals) - 1)),
                          signals[Len(signals)])

\* defaultdict(list): d[key].append(value), keys kept in insertion order
DictAppend(d, key, value) ==
    IF \E i \in 1..Len(d) : d[i].key = key
    THEN [i \in 1..Len(d) |->
            IF d[i].key = key THEN [d[i] EXCEPT !.items = Append(@, value)] ELSE d[i]]
    ELSE Append(d, [key |-> key, items |-> <<value>>])

\* UniqueLabel with the same letter for every suffixed entry
UniqueLabelSameLetter(base, i) ==
    IF i = 0 THEN base ELSE base \o <<".", "A">>

\* UniqueLabel with a suffix for every entry, the first one included
UniqueLabelAllSuffixed(base, i) == base \o <<".", Chr(Ord("A") + i)>>

\* the letter suffix of the i-th entry (from 0) of a conflict group
UniqueLabel(base, i) ==
    IF i = 0 THEN base ELSE base \o <<".", Chr(Ord("A") + i - 1)>>


----------------------------------------------------------------------------
(* WireNumberAssigner.process_connections *)

\* First pass: group the connections by signal name, skipping fixed ones
RECURSIVE GroupConnections(_, _)
GroupConnections(conn_id, signal_connections) ==
    IF conn_id > Len(snap) THEN signal_connections
    ELSE GroupConnections(conn_id + 1,
            IF has_fix_wire_name_attribute(conn_id) THEN signal_connections
            ELSE IF GetSignalName(conn_id) # ""
            THEN DictAppend(signal_connections, GetSignalName(conn_id), conn_id)
            ELSE signal_connections)

RECURSIVE AllWireData(_)
AllWireData(connection_ids) ==
    IF connection_ids = <<>> THEN <<>>
    ELSE get_connection_wire_numbers_and_positions(Head(connection_ids))
         \o AllWireData(Tail(connection_ids))

\* AllNetSegments that keeps the net segments of the first connection only
AllNetSegmentsFirstOnly(connection_ids) ==
    IF connection_ids = <<>> THEN <<>>
    ELSE SelectSeq(GetNetSegmentIds(Head(connection_ids)), LAMBDA nsid : nsid # 0)

RECURSIVE AllNetSegments(_)
AllNetSegments(connection_ids) ==
    IF connection_ids = <<>> THEN <<>>
    ELSE get_net_segments_for_connection(Head(connection_ids))
         \o AllNetSegments(Tail(connection_ids))

\* Second pass: the base wire number of each signal
RECURSIVE SignalData(_)
SignalData(signal_connections) ==
    IF signal_connections = <<>> THEN <<>>
    ELSE LET signal_name == Head(signal_connections).key
             connection_ids == Head(signal_connections).items
             all_wire_data == AllWireData(connection_ids)
             all_net_segments == AllNetSegments(connection_ids)
             lowest_wire_data == SortByWireKey(all_wire_data)[1]
         IN  (IF all_wire_data # <<>>
              THEN << [signal_name      |-> signal_name,
                       base_wire_number |-> lowest_wire_data.wire_number,
                       x_coord          |-> lowest_wire_data.x_coord,
                       y_coord          |-> lowest_wire_data.y_coord,
                       net_segment_ids  |-> {all_net_segments[i] :
                                                i \in 1..Len(all_net_segments)},
                       connection_ids   |-> connection_ids] >>
              ELSE <<>>)
             \o SignalData(Tail(signal_connections))

\* Group the signals by base wire number, then sort every group by (x, y)
RECURSIVE GroupByBase(_, _)
GroupByBase(signal_data, wire_number_groups) ==
    IF signal_data = <<>> THEN wire_number_groups
    ELSE GroupByBase(Tail(signal_data),
                     DictAppend(wire_number_groups, Head(signal_data).base_wire_number,
                                Head(signal_data)))

SortGroups(wire_number_groups) ==
    [g \in 1..Len(wire_number_groups) |->
        [wire_number_groups[g] EXCEPT !.items = SortByPosition(@)]]

WireLocals ==
    [signal_connections |-> <<>>,
     signal_data        |-> <<>>,
     wire_number_groups |-> <<>>,
     group              |-> 1,      \* position of the third pass: group ...
     index              |-> 1,      \* ... and entry of that group
     assigned           |-> <<>>,   \* (signal_name, unique_wire_number) in order
     updated_count      |-> 0,
     used_wire_numbers  |-> {}]

deviceVars == <<dsnap, dev, names>>

NoConnections ==
    /\ pc = "first_pass"
    /\ Len(snap) = 0
    /\ pc' = "done"
    /\ UNCHANGED <<snap, wire, attr, writes, deviceVars, codec, previous, shellVars>>

FirstPass ==
    /\ pc = "first_pass"
    /\ Len(snap) > 0
    /\ wire' = [wire EXCEPT !.signal_connections = GroupConnections(1, <<>>)]
    /\ pc' = "second_pass"
    /\ UNCHANGED <<snap, attr, writes, deviceVars, codec, previous, shellVars>>

\* SecondPass of a single-pass design: the base wire number of a signal is
\* written to its net segments as soon as it is known
SecondPassWritingBases ==
    /\ pc = "second_pass"
    /\ LET signal_data == SignalData(wire.signal_connections)
       IN  /\ wire' = [wire EXCEPT !.signal_data = signal_data]
           /\ writes' = writes \o
                 [k \in 1..Len(signal_data) |->
                    [kind |-> "Wire number", ids |-> signal_data[k].net_segment_ids,
                     value |-> signal_data[k].base_wire_number, failed |-> {}]]
           /\ attr' = [seg \in DOMAIN attr |->
                          IF \E k \in 1..Len(signal_data) : seg \in signal_data[k].net_segment_ids
                          THEN signal_data[CHOOSE k \in 1..Len(signal_data) :
                                              seg \in signal_data[k].net_segment_ids].base_wire_number
                          ELSE attr[seg]]
    /\ pc' = "group_signals"
    /\ UNCHANGED <<snap, deviceVars, codec, previous, shellVars>>

SecondPass ==
    /\ pc = "second_pass"
    /\ wire' = [wire EXCEPT !.signal_data = SignalData(wire.signal_connections)]
    /\ pc' = "group_signals"
    /\ UNCHANGED <<snap, attr, writes, deviceVars, codec, previous, shellVars>>

GroupSignals ==
    /\ pc = "group_signals"
    /\ wire' = [wire EXCEPT
                  !.wire_number_groups = SortGroups(GroupByBase(wire.signal_data, <<>>))]
    /\ pc' = "third_pass"
    /\ UNCHANGED <<snap, attr, writes, deviceVars, codec, previous, shellVars>>

\* Third pass, one iteration of the inner loop: label one signal and write
\* the label to each of its net segments
ThirdPassSignal ==
    /\ pc = "third_pass"
    /\ wire.group <= Len(wire.wire_number_groups)
    /\ LET base_wire_number == wire.wire_number_groups[wire.group].key
           signals == wire.wire_number_groups[wire.group].items
           i == wire.index - 1
           signal_info == signals[wire.index]
           unique_wire_number == UniqueLabel(base_wire_number, i)
           raised == {seg \in signal_info.net_segment_ids : SetAttributeValueRaises(seg)}
           refused == {seg \in signal_info.net_segment_ids : SetAttributeValueRefused(seg)}
           failed == raised \cup refused
           written == signal_info.net_segment_ids \ failed
           last == wire.index = Len(signals)
       IN  /\ attr' = [seg \in DOMAIN attr |->
                          IF seg \in written THEN unique_wire_number ELSE attr[seg]]
           /\ writes' = Append(writes, [kind |-> "Wire number",
                                        ids |-> signal_info.net_segment_ids,
                                        value |-> unique_wire_number,
                                        failed |-> failed])
           /\ wire' = [wire EXCEPT
                  !.used_wire_numbers = @ \cup {unique_wire_number},
                  !.updated_count = @ + Cardinality(signal_info.net_segment_ids \ raised),
                  !.assigned = Append(@, [signal_name |-> signal_info.signal_name,
                                          unique_wire_number |-> unique_wire_number]),
                  !.group = IF last THEN @ + 1 ELSE @,
                  !.index = IF last THEN 1 ELSE @ + 1]
    /\ UNCHANGED <<pc, snap, deviceVars, codec, previous, shellVars>>

ThirdPassEnd ==
    /\ pc = "third_pass"
    /\ wire.group > Len(wire.wire_number_groups)
    /\ pc' = "done"
    /\ UNCHANGED <<snap, wire, attr, writes, deviceVars, codec, previous, shellVars>>

process_connections ==
    \/ NoConnections
    \/ FirstPass
    \/ SecondPass
    \/ GroupSignals
    \/ ThirdPassSignal
    \/ ThirdPassEnd

----------------------------------------------------------------------------
(* The project the collaborator serves to the device designation run.      *)
(* Devices and symbols are fixed tables; a snapshot is the set of devices  *)
(* that exist in the project.                                              *)

MaxDevices == 3

\* e3Symbol.GetSchemaLocation() by symbol id: (sheet_id, x, y, grid_desc)
SymbolLocation ==
    <<  [sheet |-> 1, x |-> 300, y |-> 50, grid_desc |-> <<"/", "1", ".", "A", "5">>],
        [sheet |-> 1, x |-> 100, y |-> 50, grid_desc |-> <<"/", "1", ".", "A", "5">>],
        [sheet |-> 1, x |-> 200, y |-> 50, grid_desc |-> <<"/", "1", ".", "A", "5">>],
        [sheet |-> 3, x |-> 10,  y |-> 20, grid_desc |-> <<"/", "1", "0", ".", "B", "2">>],
        [sheet |-> 0, x |-> 0,   y |-> 0,  grid_desc |-> <<>>],
        [sheet |-> 1, x |-> 50,  y |-> 50, grid_desc |-> <<>>],
        [sheet |-> 6, x |-> 10,  y |-> 10, grid_desc |-> <<"/", "0", ".", "0", "1">>]  >>

\* e3Device by device id.  IsTerminal, IsTerminalBlock and IsCable answer 0
\* or 1; "raises" names the terminal query that raises ("IsTerminal": the
\* first one, so that IsTerminalBlock is never asked; "IsTerminalBlock": the
\* second one, after IsTerminal has answered; "none").  letter_code is the
\* "DeviceLetterCode" component attribute, symbols the result of
\* GetSymbolIds, set_name what SetName does: "ok" (it renames and returns a
\* result > 0), "refused" (it returns a result <= 0) or "raises".
Device(is_terminal, is_terminal_block, raises, is_cable, letter_code, symbols, set_name) ==
    [is_terminal |-> is_terminal, is_terminal_block |-> is_terminal_block,
     raises |-> raises, is_cable |-> is_cable, letter_code |-> letter_code,
     symbols |-> symbols, set_name |-> set_name]

DeviceTable ==
    9  :> Device(0, 0, "none", 0, <<"K">>, <<1, 4>>, "ok") @@
    2  :> Device(0, 0, "none", 0, <<"K">>, <<2>>, "ok") @@
    12 :> Device(0, 0, "none", 0, <<"K">>, <<3>>, "ok") @@
    16 :> Device(1, 0, "none", 0, <<"X">>, <<1>>, "ok") @@
    3  :> Device(0, 1, "none", 0, <<"K">>, <<2>>, "ok") @@
    21 :> Device(0, 0, "IsTerminal", 0, <<"X", "T">>, <<3>>, "ok") @@
    14 :> Device(0, 0, "none", 1, <<"W">>, <<>>, "ok") @@
    7  :> Device(0, 0, "IsTerminal", 0, <<"M">>, <<4>>, "refused") @@
    19 :> Device(0, 0, "none", 1, <<"C">>, <<>>, "ok") @@
    25 :> Device(1, 0, "IsTerminalBlock", 0, <<"K">>, <<2>>, "ok") @@
    8  :> Device(0, 0, "none", 0, <<"K">>, <<4>>, "raises") @@
    5  :> Device(0, 0, "none", 0, <<"K">>, <<5, 1>>, "ok") @@
    10 :> Device(0, 0, "none", 0, <<"X">>, <<3>>, "ok") @@
    6  :> Device(0, 0, "none", 0, <<"K">>, <<>>, "ok") @@
    11 :> Device(0, 0, "none", 0, <<"K">>, <<6>>, "ok") @@
    4  :> Device(0, 0, "none", 0, <<"W">>, <<7>>, "ok") @@
    13 :> Device(0, 0, "none", 1, <<"W">>, <<>>, "ok")

DeviceIds == DOMAIN DeviceTable

\* the name every device carries before the run
OldName == <<"O", "L", "D">>

\* a device on a sheet whose grid positions are numbers only and a second
\* cable of letter code W: they are left to the projects of CableSnapshots
CableProjectDeviceIds == {4, 13}

\* the projects of at most MaxDevices devices whose ids fall into different
\* slots of the 8-slot table of a small CPython set
DeviceSnapshots ==
    {present \in SUBSET (DeviceIds \ CableProjectDeviceIds) :
        /\ Cardinality(present) <= MaxDevices
        /\ \A d, e \in present : d # e => d % 8 # e % 8}

\* the members of a set of integers in ascending order
RECURSIVE Ascending(_)
Ascending(ids) ==
    IF ids = {} THEN <<>>
    ELSE LET least == CHOOSE d \in ids : \A e \in ids : d <= e
         IN  <<least>> \o Ascending(ids \ {least})

\* list(set(ids)) for at most four small integers with distinct residues:
\* CPython keeps them in an 8-slot table at slot hash & 7 and lists the
\* slots in order
RECURSIVE BySlot(_)
BySlot(ids) ==
    IF ids = {} THEN <<>>
    ELSE LET first == CHOOSE d \in ids : \A e \in ids : d % 8 <= e % 8
         IN  <<first>> \o BySlot(ids \ {first})

ListOfSet(ids) == BySlot({ids[i] : i \in 1..Len(ids)})

----------------------------------------------------------------------------
(* Collaborator queries of the device designation run *)

GetAllDeviceIds == Ascending({d \in dsnap : DeviceTable[d].is_cable = 0})

GetCableIds == Ascending({d \in dsnap : DeviceTable[d].is_cable = 1})

----------------------------------------------------------------------------
(* Helpers of DeviceDesignationManager *)

get_all_device_and_cable_ids ==
    LET regular_devices == GetAllDeviceIds
        cables == SelectSeq(GetCableIds,
                            LAMBDA cid : \A i \in 1..Len(regular_devices) :
                                            regular_devices[i] # cid)
    IN  ListOfSet(regular_devices \o cables)

\* device_extract_grid_position with the "UNKNOWN" fallback of the wire
\* numbering
device_extract_grid_position_unknown(grid_desc) ==
    IF ~Truthy(grid_desc) THEN <<"U", "N", "K", "N", "O", "W", "N">>
    ELSE IF Contains(grid_desc, ".") THEN LastPart(grid_desc)
    ELSE grid_desc

device_extract_grid_position(grid_desc) ==
    IF ~Truthy(grid_desc) THEN <<>>
    ELSE IF Contains(grid_desc, ".") THEN LastPart(grid_desc)
    ELSE grid_desc

get_device_letter_code(device_id) ==
    IF DeviceTable[device_id].letter_code = Raises THEN <<"X">>
    ELSE DeviceTable[device_id].letter_code

generate_device_designation(letter_code, sheet, grid) == letter_code \o sheet \o grid

\* get_first_symbol_info that takes the leftmost placed symbol instead of the
\* first one
get_first_symbol_info_leftmost(device_id) ==
    LET NotFound == [sheet |-> None, grid |-> None, first_symbol_id |-> 0]
        symbol_ids == SelectSeq(DeviceTable[device_id].symbols,
                                LAMBDA sid : sid > 0 /\ SymbolLocation[sid].sheet > 0)
        leftmost == CHOOSE sid \in {symbol_ids[i] : i \in 1..Len(symbol_ids)} :
                        \A i \in 1..Len(symbol_ids) :
                            SymbolLocation[sid].x <= SymbolLocation[symbol_ids[i]].x
        result == SymbolLocation[leftmost]
    IN  IF symbol_ids = <<>> THEN NotFound
        ELSE IF SheetName[result.sheet] = Raises THEN NotFound
        ELSE [sheet |-> SheetName[result.sheet],
              grid |-> device_extract_grid_position(result.grid_desc),
              first_symbol_id |-> leftmost]

\* (sheet_assignment, grid_position, first_symbol_id); 0 stands for None
get_first_symbol_info(device_id) ==
    LET NotFound == [sheet |-> None, grid |-> None, first_symbol_id |-> 0]
        symbol_ids == SelectSeq(DeviceTable[device_id].symbols, LAMBDA sid : sid > 0)
        first_symbol_id == symbol_ids[1]
        result == SymbolLocation[first_symbol_id]
    IN  IF symbol_ids = <<>> THEN NotFound
        ELSE IF result.sheet <= 0 THEN NotFound
        ELSE IF SheetName[result.sheet] = Raises THEN NotFound
        ELSE [sheet |-> SheetName[result.sheet],
              grid |-> device_extract_grid_position(result.grid_desc),
              first_symbol_id |-> first_symbol_id]

TerminalCodes == {<<"T">>, <<"T", "B">>, <<"X">>, <<"X", "T">>, <<"T", "E", "R", "M">>}

\* is_terminal_device that does not ask IsTerminalBlock
is_terminal_device_no_block(device_id) ==
    IF DeviceTable[device_id].raises # "none"
    THEN get_device_letter_code(device_id) \in TerminalCodes
    ELSE DeviceTable[device_id].is_terminal = 1

is_terminal_device(device_id) ==
    IF DeviceTable[device_id].raises # "none"
    THEN get_device_letter_code(device_id) \in TerminalCodes
    ELSE \/ DeviceTable[device_id].is_terminal = 1
         \/ DeviceTable[device_id].is_terminal_block = 1

is_cable_device(device_id) == DeviceTable[device_id].is_cable = 1

\* f"{n:03d}"
RECURSIVE DecimalDigits(_)
DecimalDigits(n) ==
    IF n < 10 THEN <<DigitSeq[n + 1]>>
    ELSE DecimalDigits(n \div 10) \o <<DigitSeq[(n % 10) + 1]>>

\* Format03d of a counter that is never advanced
Format03dOfOne(n) == <<"0", "0", "1">>

Format03d(n) ==
    LET digits == DecimalDigits(n)
    IN  IF Len(digits) >= 3 THEN digits
        ELSE [i \in 1..(3 - Len(digits)) |-> "0"] \o digits

\* InsertById ordering the devices by the x position of their first symbol
RECURSIVE InsertByXPosition(_, _)
InsertByXPosition(sorted, device_id) ==
    IF sorted = <<>> THEN <<device_id>>
    ELSE IF SymbolLocation[DeviceTable[device_id].symbols[1]].x
               < SymbolLocation[DeviceTable[Head(sorted)].symbols[1]].x
    THEN <<device_id>> \o sorted
    ELSE <<Head(sorted)>> \o InsertByXPosition(Tail(sorted), device_id)

\* the device ids of one conflict group in ascending device id order
RECURSIVE InsertById(_, _)
InsertById(sorted, device_id) ==
    IF sorted = <<>> THEN <<device_id>>
    ELSE IF device_id < Head(sorted) THEN <<device_id>> \o sorted
    ELSE <<Head(sorted)>> \o InsertById(Tail(sorted), device_id)

RECURSIVE SortById(_)
SortById(device_ids) ==
    IF device_ids = <<>> THEN <<>>
    ELSE InsertById(SortById(SubSeq(device_ids, 1, Len(device_ids) - 1)),
                    device_ids[Len(device_ids)])

\* dict[key] = value, keys kept in insertion order
DictSet(d, key, value) ==
    IF \E i \in 1..Len(d) : d[i].key = key
    THEN [i \in 1..Len(d) |-> IF d[i].key = key THEN [key |-> key, value |-> value] ELSE d[i]]
    ELSE Append(d, [key |-> key, value |-> value])

RECURSIVE SuffixGroup(_, _, _, _)
SuffixGroup(final_designations, base_designation, device_orders, i) ==
    IF i >= Len(device_orders) THEN final_designations
    ELSE SuffixGroup(DictSet(final_designations, device_orders[i + 1],
                             IF i = 0 THEN base_designation
                             ELSE base_designation \o <<".", Chr(Ord("A") + i - 1)>>),
                     base_designation, device_orders, i + 1)

RECURSIVE assign_suffix_for_conflicts(_, _)
assign_suffix_for_conflicts(designations, final_designations) ==
    IF designations = <<>> THEN final_designations
    ELSE LET base_designation == Head(designations).key
             device_ids == Head(designations).items
         IN  assign_suffix_for_conflicts(Tail(designations),
                IF Len(device_ids) = 1
                THEN DictSet(final_designations, device_ids[1], base_designation)
                ELSE SuffixGroup(final_designations, base_designation,
                                 SortById(device_ids), 0))

----------------------------------------------------------------------------
(* DeviceDesignationManager.process_devices *)

\* Second loop: the base designation of every non-terminal device.  The
\* accumulator carries designations, device_data, cable_counter and the two
\* counters.
RECURSIVE BaseDesignations(_, _)
BaseDesignations(non_terminal_devices, acc) ==
    IF non_terminal_devices = <<>> THEN acc
    ELSE LET device_id == Head(non_terminal_devices)
             letter_code == get_device_letter_code(device_id)
             cable_designation == letter_code \o Format03d(acc.cable_counter)
             info == get_first_symbol_info(device_id)
             base_designation == generate_device_designation(letter_code, info.sheet,
                                                             info.grid)
         IN  BaseDesignations(Tail(non_terminal_devices),
                IF is_cable_device(device_id)
                THEN [acc EXCEPT
                        !.cable_counter = @ + 1,
                        !.device_data = DictSet(@, device_id,
                            [base_designation |-> cable_designation,
                             first_symbol_id |-> 0]),
                        !.designations = DictAppend(@, cable_designation, device_id),
                        !.devices_with_symbols = @ + 1]
                ELSE IF Truthy(info.sheet) /\ Truthy(info.grid) /\ info.first_symbol_id # 0
                THEN [acc EXCEPT
                        !.device_data = DictSet(@, device_id,
                            [base_designation |-> base_designation,
                             first_symbol_id |-> info.first_symbol_id]),
                        !.designations = DictAppend(@, base_designation, device_id),
                        !.devices_with_symbols = @ + 1]
                ELSE [acc EXCEPT !.devices_without_symbols = @ + 1])

DeviceLocals ==
    [actual_devices            |-> <<>>,
     non_terminal_devices      |-> <<>>,
     terminal_devices_skipped  |-> 0,
     cable_count               |-> 0,
     cable_counter             |-> 1,
     device_data               |-> <<>>,
     designations              |-> <<>>,
     devices_with_symbols      |-> 0,
     devices_without_symbols   |-> 0,
     final_designations        |-> <<>>,
     next                      |-> 1,     \* position of the update loop
     designation_success_count |-> 0]

wireVars == <<snap, wire, attr>>

DevicesNone ==
    /\ pc = "device_first_pass"
    /\ get_all_device_and_cable_ids = <<>>
    /\ pc' = "device_done"
    /\ UNCHANGED <<dsnap, dev, names, writes, wireVars, codec, previous, shellVars>>

DevicesFirstPass ==
    /\ pc = "device_first_pass"
    /\ get_all_device_and_cable_ids # <<>>
    /\ LET actual_devices == get_all_device_and_cable_ids
           non_terminal_devices ==
               SelectSeq(actual_devices, LAMBDA d : ~is_terminal_device(d))
       IN  dev' = [dev EXCEPT
              !.actual_devices = actual_devices,
              !.non_terminal_devices = non_terminal_devices,
              !.terminal_devices_skipped = Len(actual_devices) - Len(non_terminal_devices),
              !.cable_count = Len(SelectSeq(non_terminal_devices, is_cable_device))]
    /\ pc' = "device_second_pass"
    /\ UNCHANGED <<dsnap, names, writes, wireVars, codec, previous, shellVars>>

DevicesSecondPass ==
    /\ pc = "device_second_pass"
    /\ dev' = BaseDesignations(dev.non_terminal_devices, dev)
    /\ pc' = "device_resolve"
    /\ UNCHANGED <<dsnap, names, writes, wireVars, codec, previous, shellVars>>

DevicesResolve ==
    /\ pc = "device_resolve"
    /\ dev' = [dev EXCEPT
                 !.final_designations = assign_suffix_for_conflicts(dev.designations, <<>>)]
    /\ pc' = "device_update"
    /\ UNCHANGED <<dsnap, names, writes, wireVars, codec, previous, shellVars>>

\* update_device_designation for the next entry of final_designations
DevicesUpdate ==
    /\ pc = "device_update"
    /\ dev.next <= Len(dev.final_designations)
    /\ LET device_id == dev.final_designations[dev.next].key
           designation == dev.final_designations[dev.next].value
           result == DeviceTable[device_id].set_name
           success == result = "ok"
       IN  /\ names' = [names EXCEPT ![device_id] = IF success THEN designation ELSE @]
           /\ writes' = Append(writes, [kind |-> "SetName",
                                        ids |-> {device_id},
                                        value |-> designation,
                                        failed |-> IF success THEN {} ELSE {device_id}])
           /\ dev' = [dev EXCEPT
                        !.next = @ + 1,
                        !.designation_success_count = IF success THEN @ + 1 ELSE @]
    /\ UNCHANGED <<pc, dsnap, wireVars, codec, previous, shellVars>>

DevicesEnd ==
    /\ pc = "device_update"
    /\ dev.next > Len(dev.final_designations)
    /\ pc' = "device_done"
    /\ UNCHANGED <<dsnap, dev, names, writes, wireVars, codec, previous, shellVars>>

process_devices ==
    \/ DevicesNone
    \/ DevicesFirstPass
    \/ DevicesSecondPass
    \/ DevicesResolve
    \/ DevicesUpdate
    \/ DevicesEnd

----------------------------------------------------------------------------
(* A run of one automation on one snapshot *)

NoCodec == [stage |-> "off"]

\* no run has been made on the project yet
NoPrevious ==
    [runs |-> 0, assigned |-> <<>>, signal_data |-> <<>>, attr |-> <<>>,
     final_designations |-> <<>>, names |-> <<>>]

\* run() is not part of the behaviour: process_connections or process_devices
\* is entered directly
NoSession == [stage |-> "off"]

\* no terminal pin name automation
NoTerminals == [stage |-> "off"]

\* no window
NoWindow == [stage |-> "off"]

InitWire ==
    /\ pc = "first_pass"
    /\ snap \in WireSnapshots
    /\ wire = WireLocals
    /\ attr = [seg \in SegmentIds |-> OldWireNumber]
    /\ writes = <<>>
    /\ dsnap = {}
    /\ dev = DeviceLocals
    /\ names = [d \in DeviceIds |-> OldName]
    /\ codec = NoCodec
    /\ previous = NoPrevious
    /\ session = NoSession
    /\ term = NoTerminals
    /\ gui = NoWindow

InitDevices ==
    /\ pc = "device_first_pass"
    /\ dsnap \in DeviceSnapshots
    /\ dev = DeviceLocals
    /\ names = [d \in DeviceIds |-> OldName]
    /\ writes = <<>>
    /\ snap = <<>>
    /\ wire = WireLocals
    /\ attr = [seg \in SegmentIds |-> OldWireNumber]
    /\ codec = NoCodec
    /\ previous = NoPrevious
    /\ session = NoSession
    /\ term = NoTerminals
    /\ gui = NoWindow

Init == InitWire \/ InitDevices

\* projects with cables, among them a device on a sheet with numbered grid
\* positions
CableSnapshots ==
    {present \in SUBSET {4, 14, 19, 2, 9, 7, 16, 13} : Cardinality(present) <= MaxDevices}

InitCables ==
    /\ pc = "device_first_pass"
    /\ dsnap \in CableSnapshots
    /\ dev = DeviceLocals
    /\ names = [d \in DeviceIds |-> OldName]
    /\ writes = <<>>
    /\ snap = <<>>
    /\ wire = WireLocals
    /\ attr = [seg \in SegmentIds |-> OldWireNumber]
    /\ codec = NoCodec
    /\ previous = NoPrevious
    /\ session = NoSession
    /\ term = NoTerminals
    /\ gui = NoWindow

SpecCables == InitCables /\ [][process_devices]_vars

Next == process_connections \/ process_devices

Spec == Init /\ [][Next]_vars

----------------------------------------------------------------------------
(* The automation is started again on the project the run before left     *)
(* behind: run() calls process_connections / process_devices afresh, the   *)
(* locals start empty, the attributes and names are the ones written.      *)

MaxRuns == 2

Remember ==
    [runs               |-> previous.runs + 1,
     assigned           |-> wire.assigned,
     signal_data        |-> wire.signal_data,
     attr               |-> attr,
     final_designations |-> dev.final_designations,
     names              |-> names]

RunConnectionsAgain ==
    /\ pc = "done"
    /\ previous.runs + 1 < MaxRuns
    /\ previous' = Remember
    /\ wire' = WireLocals
    /\ pc' = "first_pass"
    /\ UNCHANGED <<snap, attr, writes, deviceVars, codec, shellVars>>

\* RunDevicesAgain with a cable counter that lives on between the runs
RunDevicesAgainKeepingCounter ==
    /\ pc = "device_done"
    /\ previous.runs + 1 < MaxRuns
    /\ previous' = Remember
    /\ dev' = [DeviceLocals EXCEPT !.cable_counter = dev.cable_counter]
    /\ pc' = "device_first_pass"
    /\ UNCHANGED <<dsnap, names, writes, wireVars, codec, shellVars>>

RunDevicesAgain ==
    /\ pc = "device_done"
    /\ previous.runs + 1 < MaxRuns
    /\ previous' = Remember
    /\ dev' = DeviceLocals
    /\ pc' = "device_first_pass"
    /\ UNCHANGED <<dsnap, names, writes, wireVars, codec, shellVars>>

NextTwice == Next \/ RunConnectionsAgain \/ RunDevicesAgain

SpecTwice == Init /\ [][NextTwice]_vars

----------------------------------------------------------------------------
(* The project is read a second time, as it was before the first run, with *)
(* GetAllConnectionIds listing the same connections in the opposite order. *)
(* A connection is known by its place in the listing.                      *)

Reverse(seq) == [i \in 1..Len(seq) |-> seq[Len(seq) + 1 - i]]

RunReordered ==
    /\ pc = "done"
    /\ previous.runs + 1 < MaxRuns
    /\ previous' = Remember
    /\ snap' = Reverse(snap)
    /\ wire' = WireLocals
    /\ attr' = [seg \in SegmentIds |-> OldWireNumber]
    /\ writes' = <<>>
    /\ pc' = "first_pass"
    /\ UNCHANGED <<deviceVars, codec, shellVars>>

NextReordered == process_connections \/ RunReordered

SpecReordered == InitWire /\ [][NextReordered]_vars

----------------------------------------------------------------------------
(* scripts/set_wire_numbers.py, the script the library was made from.  Its  *)
(* process_connections has no FixWireName check and sorts the candidate     *)
(* wire numbers as plain strings; the helpers and everything from the       *)
(* grouping by base wire number on are the code of the library.  The script *)
(* is run on the project as it was before the run of the library.           *)

\* first pass of the script: every connection with a signal name
RECURSIVE LegacyGroupConnections(_, _)
LegacyGroupConnections(conn_id, signal_connections) ==
    IF conn_id > Len(snap) THEN signal_connections
    ELSE LegacyGroupConnections(conn_id + 1,
            IF GetSignalName(conn_id) # ""
            THEN DictAppend(signal_connections, GetSignalName(conn_id), conn_id)
            ELSE signal_connections)

\* all_wire_data.sort(key=lambda x: x['wire_number']): stable, by str <
RECURSIVE LegacyInsert(_, _)
LegacyInsert(sorted, e) ==
    IF sorted = <<>> THEN <<e>>
    ELSE IF StrLess(e.wire_number, Head(sorted).wire_number) THEN <<e>> \o sorted
    ELSE <<Head(sorted)>> \o LegacyInsert(Tail(sorted), e)

RECURSIVE LegacySort(_)
LegacySort(all_wire_data) ==
    IF all_wire_data = <<>> THEN <<>>
    ELSE LegacyInsert(LegacySort(SubSeq(all_wire_data, 1, Len(all_wire_data) - 1)),
                      all_wire_data[Len(all_wire_data)])

\* second pass of the script
RECURSIVE LegacySignalData(_)
LegacySignalData(signal_connections) ==
    IF signal_connections = <<>> THEN <<>>
    ELSE LET signal_name == Head(signal_connections).key
             connection_ids == Head(signal_connections).items
             all_wire_data == AllWireData(connection_ids)
             all_net_segments == AllNetSegments(connection_ids)
             lowest_wire_data == LegacySort(all_wire_data)[1]
         IN  (IF all_wire_data # <<>>
              THEN << [signal_name      |-> signal_name,
                       base_wire_number |-> lowest_wire_data.wire_number,
                       x_coord          |-> lowest_wire_data.x_coord,
                       y_coord          |-> lowest_wire_data.y_coord,
                       net_segment_ids  |-> {all_net_segments[i] :
                                                i \in 1..Len(all_net_segments)},
                       connection_ids   |-> connection_ids] >>
              ELSE <<>>)
             \o LegacySignalData(Tail(signal_connections))

\* the projects in which no net carries a set FixWireName flag
InitLegacy ==
    /\ InitWire
    /\ \A c \in 1..Len(snap) :
          GetNetId(c) > 0 /\ NetTable[GetNetId(c)].fix # Raises
              => ~FixValueIsSet(NetTable[GetNetId(c)].fix)

\* the library has finished; the script is started on the project as it was
RunLegacy ==
    /\ pc = "done"
    /\ previous.runs = 0
    /\ previous' = Remember
    /\ wire' = WireLocals
    /\ attr' = [seg \in SegmentIds |-> OldWireNumber]
    /\ writes' = <<>>
    /\ pc' = "legacy_first_pass"
    /\ UNCHANGED <<snap, deviceVars, codec, shellVars>>

LegacyFirstPass ==
    /\ pc = "legacy_first_pass"
    /\ IF Len(snap) = 0
       THEN pc' = "done" /\ UNCHANGED wire
       ELSE /\ wire' = [wire EXCEPT
                          !.signal_connections = LegacyGroupConnections(1, <<>>)]
            /\ pc' = "legacy_second_pass"
    /\ UNCHANGED <<snap, attr, writes, deviceVars, codec, previous, shellVars>>

LegacySecondPass ==
    /\ pc = "legacy_second_pass"
    /\ wire' = [wire EXCEPT !.signal_data = LegacySignalData(wire.signal_connections)]
    /\ pc' = "group_signals"
    /\ UNCHANGED <<snap, attr, writes, deviceVars, codec, previous, shellVars>>

NextLegacy == process_connections \/ RunLegacy \/ LegacyFirstPass \/ LegacySecondPass

SpecLegacy == InitLegacy /\ [][NextLegacy]_vars

----------------------------------------------------------------------------
(* A wire numbering run on a project of the rarer nets *)

InitRare ==
    /\ pc = "first_pass"
    /\ snap \in RareSnapshots
    /\ wire = WireLocals
    /\ attr = [seg \in SegmentIds |-> OldWireNumber]
    /\ writes = <<>>
    /\ dsnap = {}
    /\ dev = DeviceLocals
    /\ names = [d \in DeviceIds |-> OldName]
    /\ codec = NoCodec
    /\ previous = NoPrevious
    /\ session = NoSession
    /\ term = NoTerminals
    /\ gui = NoWindow

SpecRare == InitRare /\ [][process_connections]_vars

----------------------------------------------------------------------------
(* run(): connect to E3, process, return a boolean.  A session tells        *)
(* whether E3 can be reached and whether the listing queries                *)
(* (GetAllConnectionIds; GetAllDeviceIds and GetCableIds) raise.            *)

Session(available, listing) ==
    [stage |-> "run", available |-> available, listing |-> listing, result |-> "none"]

Sessions == {Session(TRUE, "ok"), Session(FALSE, "ok"), Session(TRUE, "raises")}

InitRun ==
    /\ \/ /\ pc = "run"
          /\ snap \in WireSnapshots
          /\ dsnap = {}
       \/ /\ pc = "device_run"
          /\ snap = <<>>
          /\ dsnap \in DeviceSnapshots
    /\ session \in Sessions
    /\ wire = WireLocals
    /\ attr = [seg \in SegmentIds |-> OldWireNumber]
    /\ writes = <<>>
    /\ dev = DeviceLocals
    /\ names = [d \in DeviceIds |-> OldName]
    /\ codec = NoCodec
    /\ previous = NoPrevious
    /\ term = NoTerminals
    /\ gui = NoWindow

\* connect_to_e3 returns False when E3 cannot be reached, it does not raise
connect_to_e3 == session.available

\* run() that goes on to process when connect_to_e3 has returned False
RunConnectIgnoringResult ==
    /\ pc \in {"run", "device_run"}
    /\ pc' = IF pc = "run" THEN "first_pass" ELSE "device_first_pass"
    /\ UNCHANGED <<runVars, codec>>

\* run(), up to the call of process_connections or process_devices
RunConnect ==
    /\ pc \in {"run", "device_run"}
    /\ IF connect_to_e3
       THEN /\ pc' = IF pc = "run" THEN "first_pass" ELSE "device_first_pass"
            /\ UNCHANGED session
       ELSE /\ pc' = "returned"
            /\ session' = [session EXCEPT !.result = "False"]
    /\ UNCHANGED <<snap, wire, attr, writes, dsnap, dev, names, codec, previous, term, gui>>

\* ListingRaises with no except clause around the listing query: the
\* exception leaves run()
ListingRaisesEscapes ==
    /\ pc \in {"first_pass", "device_first_pass"}
    /\ session.listing = "raises"
    /\ pc' = "escaped"
    /\ UNCHANGED <<runVars, codec>>

\* the listing query raises: the except clause of process_connections logs
\* and returns; get_all_device_and_cable_ids returns an empty list and
\* process_devices returns
ListingRaises ==
    /\ pc \in {"first_pass", "device_first_pass"}
    /\ session.listing = "raises"
    /\ pc' = IF pc = "first_pass" THEN "done" ELSE "device_done"
    /\ UNCHANGED <<runVars, codec>>

RunProcess ==
    /\ session.listing = "ok"
    /\ (process_connections \/ process_devices)

\* run() after process_connections or process_devices has returned
RunReturn ==
    /\ pc \in {"done", "device_done"}
    /\ pc' = "returned"
    /\ session' = [session EXCEPT !.result = "True"]
    /\ UNCHANGED <<snap, wire, attr, writes, dsnap, dev, names, codec, previous, term, gui>>

NextRun == RunConnect \/ ListingRaises \/ RunProcess \/ RunReturn

SpecRun == InitRun /\ [][NextRun]_vars

\* Projects whose collaborator calls fail in every way the tables have: a
\* net whose trunk segment cannot be written, a net whose FixWireName query
\* raises, a pin on a sheet without a readable name; devices whose SetName
\* raises or is refused and one whose IsTerminalBlock query raises
FewConnChoices ==
    {[net |-> 5, signal |-> "S2", pins |-> <<2>>],
     [net |-> 6, signal |-> "S3", pins |-> <<1>>],
     [net |-> 4, signal |-> "S3", pins |-> <<3, 8>>]}

FewSnapshots == UNION {[1..n -> FewConnChoices] : n \in 0..MaxConns}

FewDeviceSnapshots == {ds \in DeviceSnapshots : ds \subseteq {8, 2, 25, 7}}

InitRunFew ==
    /\ \/ /\ pc = "run"
          /\ snap \in FewSnapshots
          /\ dsnap = {}
       \/ /\ pc = "device_run"
          /\ snap = <<>>
          /\ dsnap \in FewDeviceSnapshots
    /\ session \in Sessions
    /\ wire = WireLocals
    /\ attr = [seg \in SegmentIds |-> OldWireNumber]
    /\ writes = <<>>
    /\ dev = DeviceLocals
    /\ names = [d \in DeviceIds |-> OldName]
    /\ codec = NoCodec
    /\ previous = NoPrevious
    /\ term = NoTerminals
    /\ gui = NoWindow

\* ENABLED <<RunProcess>>_vars: process_connections or process_devices has
\* been entered and has not returned
ProcessCanStep ==
    /\ session.listing = "ok"
    /\ pc \in {"first_pass", "second_pass", "group_signals", "third_pass",
              "device_first_pass", "device_second_pass", "device_resolve",
              "device_update"}

\* run() is a sequential program that is not suspended for ever: weak
\* fairness of each of its steps, that of RunProcess with its ENABLED
\* written out
SpecRunFair ==
    /\ InitRunFew /\ [][NextRun]_vars
    /\ WF_vars(RunConnect) /\ WF_vars(ListingRaises) /\ WF_vars(RunReturn)
    /\ ([]<>(~ProcessCanStep) \/ []<><<RunProcess>>_vars)

----------------------------------------------------------------------------
(* The window of gui/e3_NA_Standards.py: four buttons whose handlers run in *)
(* the main thread and start worker threads.  An automation is its result:  *)
(* every run_..._automation function returns True or False.                 *)

MaxPresses == 2

Buttons == {"device", "terminal", "wire", "all"}

\* the operations a worker started by a button runs, in order
Operations(kind) ==
    IF kind = "all" THEN <<"wire", "device", "terminal">> ELSE <<kind>>

\* a thread right after thread.start()
Worker(kind) == [kind |-> kind, at |-> "started", i |-> 1, calls |-> <<>>]

InitGui ==
    /\ pc = "window"
    /\ gui = [stage |-> "window", running_operation |-> FALSE, buttons_enabled |-> TRUE,
              presses |-> 0, workers |-> <<>>]
    /\ snap = <<>>
    /\ wire = WireLocals
    /\ attr = [seg \in SegmentIds |-> OldWireNumber]
    /\ writes = <<>>
    /\ dsnap = {}
    /\ dev = DeviceLocals
    /\ names = [d \in DeviceIds |-> OldName]
    /\ codec = NoCodec
    /\ previous = NoPrevious
    /\ session = NoSession
    /\ term = NoTerminals

guiOnly == <<pc, snap, wire, attr, writes, dsnap, dev, names, codec, previous, session, term>>

\* run_device_designation, run_terminal_pin_names, run_wire_numbers and
\* run_all_automation: a press on an enabled button runs the handler
Press ==
    /\ gui.buttons_enabled
    /\ gui.presses < MaxPresses
    /\ \E button \in Buttons :
          gui' = [gui EXCEPT
                    !.presses = @ + 1,
                    !.workers = IF gui.running_operation THEN @
                                ELSE Append(@, Worker(button))]
    /\ UNCHANGED guiOnly

\* the worker's self.running_operation = True
WorkerSetsFlag(w) ==
    /\ gui.workers[w].at = "started"
    /\ gui' = [gui EXCEPT !.running_operation = TRUE, !.workers[w].at = "flagged"]
    /\ UNCHANGED guiOnly

\* the worker's self.set_buttons_enabled(False)
WorkerDisablesButtons(w) ==
    /\ gui.workers[w].at = "flagged"
    /\ gui' = [gui EXCEPT !.buttons_enabled = FALSE, !.workers[w].at = "ready"]
    /\ UNCHANGED guiOnly

\* the worker calls operation_func(self.logger)
WorkerCalls(w) ==
    /\ gui.workers[w].at = "ready"
    /\ gui' = [gui EXCEPT
                 !.workers[w].at = "calling",
                 !.workers[w].calls =
                     Append(@, [op |-> Operations(gui.workers[w].kind)[gui.workers[w].i],
                                success |-> "pending"])]
    /\ UNCHANGED guiOnly

\* WorkerReturns of a Run All that goes on after a failure
WorkerReturnsNoBreak(w) ==
    /\ gui.workers[w].at = "calling"
    /\ \E success \in BOOLEAN :
          LET worker == gui.workers[w]
              more == worker.i < Len(Operations(worker.kind))
          IN  gui' = [gui EXCEPT
                        !.workers[w].calls[Len(worker.calls)].success =
                            IF success THEN "True" ELSE "False",
                        !.workers[w].i = IF more THEN @ + 1 ELSE @,
                        !.workers[w].at = IF more THEN "ready" ELSE "ending"]
    /\ UNCHANGED guiOnly

\* operation_func returns: Run All goes on to the next operation after a
\* success and breaks at the first failure
WorkerReturns(w) ==
    /\ gui.workers[w].at = "calling"
    /\ \E success \in BOOLEAN :
          LET worker == gui.workers[w]
              more == success /\ worker.i < Len(Operations(worker.kind))
          IN  gui' = [gui EXCEPT
                        !.workers[w].calls[Len(worker.calls)].success =
                            IF success THEN "True" ELSE "False",
                        !.workers[w].i = IF more THEN @ + 1 ELSE @,
                        !.workers[w].at = IF more THEN "ready" ELSE "ending"]
    /\ UNCHANGED guiOnly

\* the finally clause: running_operation = False, set_buttons_enabled(True)
WorkerFinally(w) ==
    /\ gui.workers[w].at = "ending"
    /\ gui' = [gui EXCEPT !.running_operation = FALSE, !.buttons_enabled = TRUE,
                          !.workers[w].at = "finished"]
    /\ UNCHANGED guiOnly

NextGui ==
    \/ Press
    \/ \E w \in 1..Len(gui.workers) :
          \/ WorkerSetsFlag(w)
          \/ WorkerDisablesButtons(w)
          \/ WorkerCalls(w)
          \/ WorkerReturns(w)
          \/ WorkerFinally(w)

SpecGui == InitGui /\ [][NextGui]_vars

----------------------------------------------------------------------------
(* lib/e3_terminal_pin_names.py: the name of every terminal pin becomes    *)
(* the wire number of a net segment connected to it.                       *)

\* The project as the collaborator reports it: per device the answers of
\* IsTerminal and IsTerminalBlock (or that asking raises) and the pins of
\* GetPinIds, per pin the net segments of GetNetSegmentIds and the result
\* of SetName.
TerminalProject ==
    [devices |-> (1 :> [is_terminal |-> 1, is_terminal_block |-> 0, raises |-> FALSE, pins |-> <<1, 2>>])
              @@ (2 :> [is_terminal |-> 0, is_terminal_block |-> 1, raises |-> FALSE, pins |-> <<3, 6>>])
              @@ (3 :> [is_terminal |-> 0, is_terminal_block |-> 0, raises |-> FALSE, pins |-> <<4>>])
              @@ (4 :> [is_terminal |-> 0, is_terminal_block |-> 0, raises |-> TRUE, pins |-> <<5>>])
              @@ (5 :> [is_terminal |-> 1, is_terminal_block |-> 1, raises |-> FALSE, pins |-> <<>>]),
     pins |-> (1 :> [segments |-> <<1, 2>>, set_name |-> 1])
           @@ (2 :> [segments |-> <<3>>, set_name |-> 1])
           @@ (3 :> [segments |-> <<2, 3>>, set_name |-> 0])
           @@ (4 :> [segments |-> <<1>>, set_name |-> 1])
           @@ (5 :> [segments |-> <<2>>, set_name |-> 1])
           @@ (6 :> [segments |-> <<>>, set_name |-> 1])]

TerminalPinIds == DOMAIN TerminalProject.pins

\* a wire number the wire numbering writes
TwelveA == <<"1", "2", "A">>

\* the state before process_all_terminal_pins: the devices GetAllDeviceIds
\* lists, the "Wire number" of every net segment and the name of every pin
InitTerminal ==
    /\ pc = "terminal_devices"
    /\ \E listing \in {<<1, 2, 3, 4>>, <<3, 2, 5, 1>>, <<3, 4>>, <<>>},
          wire_number \in [1..3 -> {<<>>, <<" ">>, TwelveA, <<" ", "7", " ">>, Raises}],
          pin_name \in [TerminalPinIds -> {OldName, TwelveA}] :
          /\ pin_name[4] = OldName /\ pin_name[5] = OldName
          /\ term = [stage |-> "terminal", listing |-> listing, wire_number |-> wire_number,
                     old_name |-> pin_name, pin_name |-> pin_name,
                     terminal_devices |-> <<>>, next |-> 1, set_calls |-> <<>>,
                     total_pins_processed |-> 0, total_pins_updated |-> 0]
    /\ snap = <<>>
    /\ wire = WireLocals
    /\ attr = [seg \in SegmentIds |-> OldWireNumber]
    /\ writes = <<>>
    /\ dsnap = {}
    /\ dev = DeviceLocals
    /\ names = [d \in DeviceIds |-> OldName]
    /\ codec = NoCodec
    /\ previous = NoPrevious
    /\ session = NoSession
    /\ gui = NoWindow

termOnly == <<snap, wire, attr, writes, dsnap, dev, names, codec, previous, session, gui>>

\* a raising query makes the device no terminal
is_terminal_pin_device(device_id) ==
    LET d == TerminalProject.devices[device_id]
    IN  ~d.raises /\ (d.is_terminal = 1 \/ d.is_terminal_block = 1)

\* the wire number stripped, None when it is blank or cannot be read
get_wire_number_from_net_segment(net_segment_id) ==
    LET wire_number == term.wire_number[net_segment_id]
    IN  IF wire_number = Raises THEN None
        ELSE IF wire_number = <<>> \/ Strip(wire_number) = <<>> THEN None
        ELSE Strip(wire_number)

\* FirstWireNumber taking the last net segment that has a wire number
RECURSIVE LastWireNumber(_)
LastWireNumber(net_segment_ids) ==
    IF net_segment_ids = <<>> THEN None
    ELSE LET later == LastWireNumber(Tail(net_segment_ids))
         IN  IF later # None THEN later
             ELSE get_wire_number_from_net_segment(Head(net_segment_ids))

\* the loop of process_terminal_pin: the first net segment that has one
RECURSIVE FirstWireNumber(_)
FirstWireNumber(net_segment_ids) ==
    IF net_segment_ids = <<>> THEN None
    ELSE LET wire_number == get_wire_number_from_net_segment(Head(net_segment_ids))
         IN  IF wire_number # None THEN wire_number
             ELSE FirstWireNumber(Tail(net_segment_ids))

\* set_pin_name on the running state st: SetName only when the name differs
set_pin_name(pin_id, new_name, st) ==
    IF st.pin_name[pin_id] # new_name
    THEN LET result == TerminalProject.pins[pin_id].set_name
         IN  [st EXCEPT
                !.set_calls = Append(@, [pin |-> pin_id, name |-> new_name]),
                !.pin_name[pin_id] = IF result = 1 THEN new_name ELSE @,
                !.total_pins_updated = IF result = 1 THEN @ + 1 ELSE @]
    ELSE [st EXCEPT !.total_pins_updated = @ + 1]

process_terminal_pin(pin_id, st) ==
    LET wire_number == FirstWireNumber(TerminalProject.pins[pin_id].segments)
        counted == [st EXCEPT !.total_pins_processed = @ + 1]
    IN  IF wire_number = None THEN counted
        ELSE set_pin_name(pin_id, wire_number, counted)

\* the inner loop of process_all_terminal_pins over the pins of a device
RECURSIVE ProcessPins(_, _)
ProcessPins(pin_ids, st) ==
    IF pin_ids = <<>> THEN st
    ELSE ProcessPins(Tail(pin_ids), process_terminal_pin(Head(pin_ids), st))

\* get_all_terminal_devices; without terminal devices the method returns
get_all_terminal_devices ==
    /\ pc = "terminal_devices"
    /\ LET terminal_devices == SelectSeq(term.listing, is_terminal_pin_device)
       IN  /\ term' = [term EXCEPT !.terminal_devices = terminal_devices]
           /\ pc' = IF terminal_devices = <<>> THEN "terminal_done" ELSE "terminal_pins"
    /\ UNCHANGED termOnly

\* one round of the loop over the terminal devices
ProcessTerminalDevice ==
    /\ pc = "terminal_pins"
    /\ LET device_id == term.terminal_devices[term.next]
           st == ProcessPins(TerminalProject.devices[device_id].pins, term)
       IN  /\ term' = [st EXCEPT !.next = @ + 1]
           /\ pc' = IF term.next = Len(term.terminal_devices)
                    THEN "terminal_done" ELSE "terminal_pins"
    /\ UNCHANGED termOnly

process_all_terminal_pins == get_all_terminal_devices \/ ProcessTerminalDevice

SpecTerminal == InitTerminal /\ [][process_all_terminal_pins]_vars

----------------------------------------------------------------------------
(* The position codec on its own: two raw pin locations are decoded,       *)
(* formatted to wire numbers and turned into sort keys.                    *)

\* results of e3Sheet.GetName()
CodecPages ==
    {None, <<>>, <<" ">>, <<"1">>, <<"2">>, <<"1", "0">>, <<" ", "1", " ">>,
     <<SuperscriptTwo>>, <<"1", "0", "0", "0", "0", "0", "0">>}

\* (grid_desc, column, row) of e3Pin.GetSchemaLocation()
CodecGrids ==
    {[grid_desc |-> <<"/", "1", ".", "A", "5">>, column |-> <<"A">>, row |-> <<"5">>],
     [grid_desc |-> <<"/", "1", ".", "B", "1", "2">>, column |-> <<"B">>,
      row |-> <<"1", "2">>],
     [grid_desc |-> <<>>, column |-> <<"C">>, row |-> <<"7">>],
     [grid_desc |-> None, column |-> <<>>, row |-> <<"1", "5">>],
     [grid_desc |-> <<>>, column |-> <<"A">>, row |-> <<SuperscriptTwo>>],
     [grid_desc |-> <<>>, column |-> <<>>, row |-> <<>>]}

CodecInputs == {[page |-> p, raw |-> g] : p \in CodecPages, g \in CodecGrids}

InitCodec ==
    /\ pc = "codec"
    /\ codec \in {[stage |-> "raw", input |-> <<a, b>>, grid |-> <<>>, label |-> <<>>,
                   key |-> <<>>] : a \in CodecInputs, b \in CodecInputs}
    /\ snap = <<>>
    /\ wire = WireLocals
    /\ attr = [seg \in SegmentIds |-> OldWireNumber]
    /\ writes = <<>>
    /\ dsnap = {}
    /\ dev = DeviceLocals
    /\ names = [d \in DeviceIds |-> OldName]
    /\ previous = NoPrevious
    /\ session = NoSession
    /\ term = NoTerminals
    /\ gui = NoWindow

CodecDecode ==
    /\ pc = "codec"
    /\ codec.stage = "raw"
    /\ codec' = [codec EXCEPT
          !.stage = "decoded",
          !.grid = [n \in 1..2 |-> extract_grid_position(codec.input[n].raw.grid_desc,
                                                         codec.input[n].raw.column,
                                                         codec.input[n].raw.row)]]
    /\ UNCHANGED <<pc, runVars>>

CodecFormat ==
    /\ pc = "codec"
    /\ codec.stage = "decoded"
    /\ codec' = [codec EXCEPT
          !.stage = "formatted",
          !.label = [n \in 1..2 |-> calculate_wire_number(codec.input[n].page,
                                                          codec.grid[n])]]
    /\ UNCHANGED <<pc, runVars>>

CodecKey ==
    /\ pc = "codec"
    /\ codec.stage = "formatted"
    /\ codec' = [codec EXCEPT
          !.stage = "keyed",
          !.key = [n \in 1..2 |-> wire_number_sort_key(codec.label[n])]]
    /\ UNCHANGED <<pc, runVars>>

NextCodec == CodecDecode \/ CodecFormat \/ CodecKey

SpecCodec == InitCodec /\ [][NextCodec]_vars

----------------------------------------------------------------------------
(* Vocabulary of the properties *)

Range(seq) == {seq[i] : i \in 1..Len(seq)}

\* the signals that have been given a final wire number so far
LabeledSignals == {e.signal_name : e \in Range(wire.assigned)}

FinalWireNumber(signal_name) ==
    (CHOOSE e \in Range(wire.assigned) : e.signal_name = signal_name).unique_wire_number

SignalInfo(signal_name) ==
    CHOOSE info \in Range(wire.signal_data) : info.signal_name = signal_name

\* the devices that have been given a final designation
DesignatedDevices == {e.key : e \in Range(dev.final_designations)}

FinalDesignation(device_id) ==
    (CHOOSE e \in Range(dev.final_designations) : e.key = device_id).value

BaseDesignation(device_id) ==
    (CHOOSE e \in Range(dev.device_data) : e.key = device_id).value.base_designation

\* base, base.A, base.B, ... written out letter by letter
SuffixedLabel(base, rank) ==
    IF rank = 0 THEN base ELSE base \o <<".">> \o <<UpperSeq[rank]>>

----------------------------------------------------------------------------
(* C1: after conflict resolution, two distinct signals with the same base  *)
(* wire number have different final wire numbers, and two distinct devices *)
(* with the same base designation have different final designations.       *)
C1_DistinctWithinGroup ==
    /\ \A a, b \in LabeledSignals :
          (a # b /\ SignalInfo(a).base_wire_number = SignalInfo(b).base_wire_number)
             => FinalWireNumber(a) # FinalWireNumber(b)
    /\ \A d, e \in DesignatedDevices :
          (d # e /\ BaseDesignation(d) = BaseDesignation(e))
             => FinalDesignation(d) # FinalDesignation(e)

\* a finished wire numbering run with three signals in one conflict group
C1_Witness ==
    /\ pc = "done"
    /\ \E a, b, c \in LabeledSignals :
          /\ a # b /\ b # c /\ a # c
          /\ SignalInfo(a).base_wire_number = SignalInfo(b).base_wire_number
          /\ SignalInfo(b).base_wire_number = SignalInfo(c).base_wire_number

----------------------------------------------------------------------------
\* the signals of the conflict group of a signal
GroupOf(signal_name) ==
    {info \in Range(wire.signal_data) :
        info.base_wire_number = SignalInfo(signal_name).base_wire_number}

\* left to right, then top to bottom
LeftThenAbove(a, b) == a.x_coord < b.x_coord \/ (a.x_coord = b.x_coord /\ a.y_coord < b.y_coord)

SamePosition(a, b) == a.x_coord = b.x_coord /\ a.y_coord = b.y_coord

CollectedBefore(a, b) ==
    \E i, j \in 1..Len(wire.signal_data) :
        i < j /\ wire.signal_data[i] = a /\ wire.signal_data[j] = b

\* the signal no other signal of its group precedes in the tie-break order
RankedFirst(info) ==
    \A other \in GroupOf(info.signal_name) \ {info} :
        LeftThenAbove(info, other) \/ (SamePosition(info, other) /\ CollectedBefore(info, other))

DeviceGroupOf(device_id) ==
    {e \in DesignatedDevices : BaseDesignation(e) = BaseDesignation(device_id)}

(* C2: in every group the entity ranked first by the tie-break order ((x, y) *)
(* then collection order for signals, device id for devices) has the      *)
(* unsuffixed base label as its final label; so has an entity alone in its *)
(* group.                                                                  *)
C2_FirstKeepsBase ==
    /\ \A a \in LabeledSignals :
          RankedFirst(SignalInfo(a)) => FinalWireNumber(a) = SignalInfo(a).base_wire_number
    /\ \A d \in DesignatedDevices :
          (\A e \in DeviceGroupOf(d) : d <= e) => FinalDesignation(d) = BaseDesignation(d)

\* a finished run with a lone signal and a group whose first ranked signal
\* was collected after another signal of the group
C2_Witness ==
    /\ pc = "done"
    /\ \E a \in LabeledSignals : GroupOf(a) = {SignalInfo(a)}
    /\ \E a \in LabeledSignals :
          /\ RankedFirst(SignalInfo(a))
          /\ \E other \in GroupOf(a) : CollectedBefore(other, SignalInfo(a))

(* C3: a signal of a conflict group has rank r, where r is at least the    *)
(* number of signals of the group with a strictly smaller (x, y) and at    *)
(* most the number of other signals with a smaller or equal (x, y); rank 0 *)
(* carries the base wire number and rank r >= 1 carries base "." and the   *)
(* r-th uppercase letter.  Hence a strictly smaller (x, y) means a         *)
(* strictly lower rank, whatever the collection order.                     *)
C3_RankFollowsPosition ==
    \A a \in LabeledSignals :
        LET info == SignalInfo(a)
            before == {o \in GroupOf(a) : LeftThenAbove(o, info)}
            notAfter == {o \in GroupOf(a) \ {info} : ~LeftThenAbove(info, o)}
        IN  \E r \in Cardinality(before)..Cardinality(notAfter) :
                FinalWireNumber(a) = SuffixedLabel(info.base_wire_number, r)

\* a finished run with a group of three signals at three different
\* positions, the leftmost collected last and the rightmost first
C3_Witness ==
    /\ pc = "done"
    /\ \E a, b, c \in LabeledSignals :
          /\ {SignalInfo(a), SignalInfo(b), SignalInfo(c)} \subseteq GroupOf(a)
          /\ LeftThenAbove(SignalInfo(a), SignalInfo(b))
          /\ LeftThenAbove(SignalInfo(b), SignalInfo(c))
          /\ SignalInfo(a).x_coord = SignalInfo(b).x_coord
          /\ CollectedBefore(SignalInfo(c), SignalInfo(b))
          /\ CollectedBefore(SignalInfo(b), SignalInfo(a))
          /\ FinalWireNumber(c) = SignalInfo(c).base_wire_number \o <<".", "B">>

----------------------------------------------------------------------------
(* C4: no two distinct labeled signals have the same final wire number,    *)
(* signals of different base groups included, so that at the end of the    *)
(* run the number of distinct wire numbers equals the number of signals    *)
(* processed.                                                              *)
C4_UniqueWireNumbers ==
    /\ \A a, b \in LabeledSignals : a # b => FinalWireNumber(a) # FinalWireNumber(b)
    /\ pc = "done" => Cardinality(wire.used_wire_numbers) = Len(wire.signal_data)

----------------------------------------------------------------------------
\* the connections the first pass keeps for a signal
ProcessedConnections(signal_name) ==
    {c \in 1..Len(snap) :
        /\ GetSignalName(c) = signal_name
        /\ ~(GetNetId(c) > 0 /\ NetTable[GetNetId(c)].fix # Raises
                             /\ FixValueIsSet(NetTable[GetNetId(c)].fix))}

NoWriteFailed == \A w \in Range(writes) : w.failed = {}

(* C5: at the end of a run in which no write failed, every net segment of  *)
(* every non-skipped connection of a labeled signal carries that signal's  *)
(* final wire number.                                                      *)
C5_SegmentsCarryLabel ==
    (pc = "done" /\ NoWriteFailed) =>
        \A a \in LabeledSignals : \A c \in ProcessedConnections(a) :
            \A seg \in Range(GetNetSegmentIds(c)) : attr[seg] = FinalWireNumber(a)

\* a finished run without write failure in which a suffixed signal has two
\* processed connections on different nets
C5_Witness ==
    /\ pc = "done" /\ NoWriteFailed
    /\ \E a \in LabeledSignals :
          /\ FinalWireNumber(a) # SignalInfo(a).base_wire_number
          /\ \E c, d \in ProcessedConnections(a) : GetNetId(c) # GetNetId(d)

----------------------------------------------------------------------------
\* the connections whose net carries a set FixWireName flag
FixedConnections ==
    {c \in 1..Len(snap) :
        /\ GetNetId(c) > 0
        /\ NetTable[GetNetId(c)].fix \notin {None, Raises}
        /\ Lower(Strip(NetTable[GetNetId(c)].fix)) \notin
              {<<>>, <<"0">>, <<"f", "a", "l", "s", "e">>, <<"n", "o">>}}

(* C6: a connection whose net carries a set FixWireName flag is in no      *)
(* signal's connection list, its net segments are in no signal's segment   *)
(* set, no write is issued for them and they keep the wire number they had *)
(* before the run.                                                         *)
C6_FixedConnectionsUntouched ==
    \A c \in FixedConnections :
        /\ \A e \in Range(wire.signal_connections) : c \notin Range(e.items)
        /\ \A info \in Range(wire.signal_data) : c \notin Range(info.connection_ids)
        /\ \A seg \in Range(GetNetSegmentIds(c)) :
              /\ \A info \in Range(wire.signal_data) : seg \notin info.net_segment_ids
              /\ \A w \in Range(writes) : seg \notin w.ids
              /\ attr[seg] = OldWireNumber

\* a finished run in which a signal with a fixed connection was labeled
\* through another connection and written
C6_Witness ==
    /\ pc = "done"
    /\ \E c \in FixedConnections :
          /\ GetSignalName(c) \in LabeledSignals
          /\ \E w \in Range(writes) :
                w.value = FinalWireNumber(GetSignalName(c)) /\ w.ids # {}

----------------------------------------------------------------------------
\* the devices the terminal queries, or the letter code when they raise,
\* classify as terminal or terminal block
TerminalDevices ==
    {d \in dsnap :
        \/ DeviceTable[d].raises = "none" /\ DeviceTable[d].is_terminal = 1
        \/ DeviceTable[d].raises = "none" /\ DeviceTable[d].is_terminal_block = 1
        \/ DeviceTable[d].raises # "none" /\ DeviceTable[d].letter_code \in
              {<<"T">>, <<"T", "B">>, <<"X">>, <<"X", "T">>, <<"T", "E", "R", "M">>}}

(* C7: a device classified as terminal or terminal block is never a key of *)
(* the designations or of the final designation mapping, SetName is never  *)
(* called on it and its name stays the name it had before the run.         *)
C7_TerminalsUntouched ==
    \A d \in TerminalDevices :
        /\ d \notin DesignatedDevices
        /\ \A e \in Range(dev.designations) : d \notin Range(e.items)
        /\ \A w \in Range(writes) : d \notin w.ids
        /\ names[d] = OldName

\* a finished device run that renamed a device while a terminal, a terminal
\* block or a device taken for a terminal by its letter code was present
C7_Witness ==
    /\ pc = "device_done"
    /\ \E d \in TerminalDevices :
          DeviceTable[d].is_terminal_block = 1 \/ DeviceTable[d].raises # "none"
    /\ \E e \in dsnap : names[e] # OldName

----------------------------------------------------------------------------
\* the candidate wire numbers of a signal: one per resolvable pin of each
\* of its processed connections
Candidates(signal_name) ==
    {[wire_number |-> calculate_wire_number(
                         IF SheetName[PinLocation[p].sheet] = Raises
                         THEN <<"U", "N", "K", "N", "O", "W", "N">>
                         ELSE SheetName[PinLocation[p].sheet],
                         extract_grid_position(PinLocation[p].grid_desc,
                                               PinLocation[p].column, PinLocation[p].row)),
      x_coord |-> PinLocation[p].x,
      y_coord |-> PinLocation[p].y] :
        p \in {q \in UNION {Range(GetPinIds(c)) : c \in ProcessedConnections(signal_name)} :
                 PinLocation[q].sheet > 0}}

(* C8: the base wire number of a signal is one of its candidates, no       *)
(* candidate of the signal has a smaller sort key, and the signal's        *)
(* tie-break coordinate is the (x, y) of a pin that produced the base.     *)
C8_BaseIsMinimalCandidate ==
    \A info \in Range(wire.signal_data) :
        /\ [wire_number |-> info.base_wire_number, x_coord |-> info.x_coord,
            y_coord |-> info.y_coord] \in Candidates(info.signal_name)
        /\ \A cand \in Candidates(info.signal_name) :
              ~KeyLess(wire_number_sort_key(cand.wire_number),
                       wire_number_sort_key(info.base_wire_number))

\* a signal whose minimal candidate is neither the first collected nor the
\* smallest as a plain string
C8_Witness ==
    /\ pc = "group_signals"
    /\ \E info \in Range(wire.signal_data) :
          \E cand \in Candidates(info.signal_name) :
              /\ StrLess(cand.wire_number, info.base_wire_number)
              /\ get_connection_wire_numbers_and_positions(info.connection_ids[1])[1].wire_number
                    = cand.wire_number

----------------------------------------------------------------------------
\* a page name that is a decimal number
NumericPage(page) ==
    page # None /\ page # <<>> /\ \A i \in 1..Len(page) : page[i] \in Digits

(* C9: when the page of the first location is numerically smaller than the *)
(* page of the second, the sort key of the first wire number is strictly   *)
(* smaller than the sort key of the second, whatever the two grids.        *)
C9_KeyOrdersByPage ==
    (/\ codec.stage = "keyed"
     /\ NumericPage(codec.input[1].page) /\ NumericPage(codec.input[2].page)
     /\ ToInt(codec.input[1].page) < ToInt(codec.input[2].page))
        => KeyLess(codec.key[1], codec.key[2])

----------------------------------------------------------------------------
BlankPage(page) ==
    page = None \/ \A i \in 1..Len(page) : page[i] \in Whitespace

(* C10 as stated: the wire number is the page, or "0" for a None, empty or *)
(* blank page, followed directly by the grid.                              *)
C10_PageThenGrid ==
    codec.stage = "formatted" =>
        \A n \in 1..2 :
            codec.label[n] =
                (IF BlankPage(codec.input[n].page) THEN <<"0">> ELSE codec.input[n].page)
                \o codec.grid[n]

\* page is core with whitespace added on either side, core has none there
StrippedTo(page, core) ==
    /\ core # <<>> /\ core[1] \notin Whitespace /\ core[Len(core)] \notin Whitespace
    /\ \E i \in 1..Len(page) :
          /\ i + Len(core) - 1 <= Len(page)
          /\ SubSeq(page, i, i + Len(core) - 1) = core
          /\ \A j \in 1..Len(page) : (j < i \/ j >= i + Len(core)) => page[j] \in Whitespace

(* C10 amended: the wire number is the page without its leading and        *)
(* trailing whitespace, or "0" for a None, empty or blank page, followed   *)
(* directly by the grid.                                                   *)
C10_StrippedPageThenGrid ==
    codec.stage = "formatted" =>
        \A n \in 1..2 :
            LET label == codec.label[n]
                grid == codec.grid[n]
                core == SubSeq(label, 1, Len(label) - Len(grid))
            IN  /\ Len(label) >= Len(grid)
                /\ SubSeq(label, Len(label) - Len(grid) + 1, Len(label)) = grid
                /\ IF BlankPage(codec.input[n].page) THEN core = <<"0">>
                   ELSE StrippedTo(codec.input[n].page, core)

\* a None page and a page with surrounding blanks have been formatted
C10_Witness ==
    /\ codec.stage = "formatted"
    /\ codec.input[1].page = None
    /\ codec.label[1] = <<"0", "A", "5">>
    /\ codec.input[2].page = <<" ", "1", " ">>
    /\ codec.label[2] = <<"1", "B", "1", "2">>

----------------------------------------------------------------------------
----------------------------------------------------------------------------
\* name, base wire number and tie-break coordinate of every signal
Placements(signal_data) ==
    {[signal_name |-> info.signal_name, base_wire_number |-> info.base_wire_number,
      x_coord |-> info.x_coord, y_coord |-> info.y_coord] : info \in Range(signal_data)}

(* C12: when the same connections are listed in another order and every    *)
(* signal has the base wire number and the tie-break coordinate it had     *)
(* under the first order, every signal gets the final wire number it got   *)
(* under the first order, signals with identical coordinates included.     *)
C12_SameAssignmentAnyOrder ==
    (/\ pc = "done"
     /\ previous.runs >= 1
     /\ Placements(wire.signal_data) = Placements(previous.signal_data))
        => Range(wire.assigned) = Range(previous.assigned)

----------------------------------------------------------------------------
\* the base designations have been computed
BasesComputed == pc \in {"device_resolve", "device_update", "device_done"}

\* the cables that are not classified as terminals, in the order GetCableIds
\* lists them
NonTerminalCablesAsListed == SelectSeq(GetCableIds, LAMBDA d : d \notin TerminalDevices)

\* letter code and the counter k < 10 written with three digits
SequentialLabel(letter_code, k) == letter_code \o <<"0", "0", DigitSeq[k + 1]>>

(* C13: the k-th non-terminal cable in the order the collaborator lists    *)
(* the cables has the base designation made of its own letter code and the *)
(* counter k written with three digits.                                    *)
C13_CablesNumberedAsListed ==
    BasesComputed =>
        \A k \in 1..Len(NonTerminalCablesAsListed) :
            LET cable == NonTerminalCablesAsListed[k]
            IN  BaseDesignation(cable)
                    = SequentialLabel(DeviceTable[cable].letter_code, k)

----------------------------------------------------------------------------
\* the devices that are neither classified as terminals nor cables
RegularDevices == {d \in dsnap \ TerminalDevices : DeviceTable[d].is_cable = 0}

HasBase(device_id) == \E e \in Range(dev.device_data) : e.key = device_id

\* the first symbol in the order GetSymbolIds returns them
FirstSymbol(device_id) == SymbolLocation[DeviceTable[device_id].symbols[1]]

HasPlacedSymbol(device_id) ==
    \E sid \in Range(DeviceTable[device_id].symbols) : SymbolLocation[sid].sheet > 0

\* the first symbol is placed on a sheet whose name can be read and has a
\* grid text
FirstSymbolPlaced(device_id) ==
    /\ DeviceTable[device_id].symbols # <<>>
    /\ FirstSymbol(device_id).sheet > 0
    /\ SheetName[FirstSymbol(device_id).sheet] # Raises
    /\ SheetName[FirstSymbol(device_id).sheet] # <<>>
    /\ FirstSymbol(device_id).grid_desc # <<>>

\* letter code, then the name of the first symbol's sheet, then what follows
\* the last dot of its grid text
FirstSymbolLabel(device_id) ==
    DeviceTable[device_id].letter_code
        \o SheetName[FirstSymbol(device_id).sheet]
        \o LastPart(FirstSymbol(device_id).grid_desc)

----------------------------------------------------------------------------
\* the final designations have been computed
Resolved == pc \in {"device_update", "device_done"}

\* position of a device in the list the run works through
CollectedAt(device_id) ==
    CHOOSE i \in 1..Len(dev.non_terminal_devices) : dev.non_terminal_devices[i] = device_id

(* C15: a device whose group holds r devices with a smaller id has the     *)
(* base designation when r = 0 and the base designation, a dot and the     *)
(* r-th uppercase letter otherwise.                                        *)
C15_RankFollowsDeviceId ==
    Resolved =>
        \A d \in DesignatedDevices :
            FinalDesignation(d) =
                SuffixedLabel(BaseDesignation(d),
                              Cardinality({e \in DeviceGroupOf(d) : e < d}))

\* a resolved group of three devices in which a device with a larger id
\* lies left of one with a smaller id and a device with a larger id was
\* collected before one with a smaller id
C15_Witness ==
    /\ Resolved
    /\ \E d \in DesignatedDevices :
          /\ Cardinality(DeviceGroupOf(d)) = 3
          /\ \E a, b \in DeviceGroupOf(d) :
                a < b /\ FirstSymbol(b).x < FirstSymbol(a).x
          /\ \E a, b \in DeviceGroupOf(d) :
                a < b /\ CollectedAt(b) < CollectedAt(a)

----------------------------------------------------------------------------
\* IsTerminal or IsTerminalBlock has answered 1
CapabilityAnsweredTrue(device_id) ==
    \/ DeviceTable[device_id].raises # "IsTerminal" /\ DeviceTable[device_id].is_terminal = 1
    \/ DeviceTable[device_id].raises = "none" /\ DeviceTable[device_id].is_terminal_block = 1

CapabilityQueryFailed(device_id) == DeviceTable[device_id].raises # "none"

LetterCodeExcluded(device_id) ==
    DeviceTable[device_id].letter_code \in
        {<<"T">>, <<"T", "B">>, <<"X">>, <<"X", "T">>, <<"T", "E", "R", "M">>}

(* C16: once the first pass is over, a device has been left out as a       *)
(* terminal exactly when a capability query answered true or, a capability *)
(* query having failed, its letter code is one of T, TB, X, XT, TERM; a    *)
(* device whose queries both answered false is kept whatever its letter    *)
(* code.                                                                   *)
C16_TerminalByQueryElseLetterCode ==
    pc \in {"device_second_pass", "device_resolve", "device_update", "device_done"} =>
        \A d \in dsnap :
            (d \notin Range(dev.non_terminal_devices))
                <=> \/ CapabilityAnsweredTrue(d)
                    \/ CapabilityQueryFailed(d) /\ LetterCodeExcluded(d)

----------------------------------------------------------------------------
\* the FixWireName value of the net of a connection
FlagValue(c) == NetTable[GetNetId(c)].fix

FlagPresent(c) == FlagValue(c) \notin {None, Raises, <<>>}

UnsetSpellings == {<<>>, <<"0">>, <<"f", "a", "l", "s", "e">>, <<"n", "o">>}

\* the connection was left out by the first pass
SkippedConnection(c) ==
    \A e \in Range(wire.signal_connections) : c \notin Range(e.items)

FirstPassOver == pc \in {"second_pass", "group_signals", "third_pass", "done"}

(* C17 as stated: once the first pass is over, a connection with a signal  *)
(* name has been skipped exactly when the FixWireName value of its net is  *)
(* present and, lower-cased, is none of "", "0", "false", "no".            *)
C17_SkippedByFlagIgnoringCase ==
    FirstPassOver =>
        \A c \in 1..Len(snap) :
            (GetNetId(c) > 0 /\ GetSignalName(c) # "") =>
                (SkippedConnection(c)
                    <=> FlagPresent(c) /\ Lower(FlagValue(c)) \notin UnsetSpellings)

(* C17, amended: once the first pass is over, a connection with a signal   *)
(* name has been skipped exactly when the FixWireName value of its net is  *)
(* present and, with the surrounding whitespace removed and lower-cased,   *)
(* is none of "", "0", "false", "no"; every other connection is in the     *)
(* connection list of its signal.                                          *)
C17_SkippedByStrippedFlag ==
    FirstPassOver =>
        \A c \in 1..Len(snap) :
            (GetNetId(c) > 0 /\ GetSignalName(c) # "") =>
                /\ SkippedConnection(c)
                      <=> FlagPresent(c) /\ Lower(Strip(FlagValue(c))) \notin UnsetSpellings
                /\ ~SkippedConnection(c) =>
                      \E e \in Range(wire.signal_connections) :
                          e.key = GetSignalName(c) /\ c \in Range(e.items)

\* a finished run that skipped a connection flagged "YES" and labeled the
\* signals of a connection flagged "False" and of one flagged " no "
C17_Witness ==
    /\ pc = "done"
    /\ \E c \in 1..Len(snap) :
          FlagValue(c) = <<"Y", "E", "S">> /\ SkippedConnection(c)
    /\ \E c \in 1..Len(snap) :
          /\ FlagValue(c) = <<"F", "a", "l", "s", "e">>
          /\ ~SkippedConnection(c) /\ GetSignalName(c) \in LabeledSignals
    /\ \E c \in 1..Len(snap) :
          /\ FlagValue(c) = <<" ", "n", "o", " ">>
          /\ ~SkippedConnection(c) /\ GetSignalName(c) \in LabeledSignals

----------------------------------------------------------------------------
\* the pins of the processed connections of a signal
PinsOfSignal(signal_name) ==
    UNION {Range(GetPinIds(c)) : c \in ProcessedConnections(signal_name)}

OnValidSheet(p) == PinLocation[p].sheet > 0

PageNameKnown(p) == OnValidSheet(p) /\ SheetName[PinLocation[p].sheet] # Raises

GridKnown(p) ==
    \/ Contains(PinLocation[p].grid_desc, ".")
    \/ PinLocation[p].column # <<>>
    \/ PinLocation[p].row # <<>>

\* the net segments of the processed connections of a signal
SegmentsOfSignal(signal_name) ==
    UNION {Range(GetNetSegmentIds(c)) : c \in ProcessedConnections(signal_name)}

\* the signal got no label and none of its net segments was written
SignalLeftAlone(signal_name) ==
    /\ \A info \in Range(wire.signal_data) : info.signal_name # signal_name
    /\ signal_name \notin LabeledSignals
    /\ \A seg \in SegmentsOfSignal(signal_name) :
          attr[seg] = OldWireNumber /\ \A w \in Range(writes) : seg \notin w.ids

CollectedSignals == {e.key : e \in Range(wire.signal_connections)}

(* C18 as stated: in a finished run, a signal none of whose pins has a     *)
(* valid sheet, a sheet name that can be read and a grid descriptor,       *)
(* column or row has no label and none of its net segments is written.     *)
C18_UnknownPlacementGivesNoLabel ==
    pc = "done" =>
        \A s \in CollectedSignals :
            (\A p \in PinsOfSignal(s) : ~(PageNameKnown(p) /\ GridKnown(p)))
                => SignalLeftAlone(s)

(* C18, amended: in a finished run, a signal none of whose pins is on a    *)
(* valid sheet has no label and none of its net segments is written; every *)
(* other signal is labeled, its base wire number is a candidate of one of  *)
(* its pins on a valid sheet, with "UNKNOWN" for a sheet name that cannot  *)
(* be read and "UNKNOWN" for a missing grid position, and no candidate of  *)
(* the signal has a smaller sort key.                                      *)
C18_OnlyUnplacedPinsGiveNoCandidate ==
    pc = "done" =>
        \A s \in CollectedSignals :
            IF \A p \in PinsOfSignal(s) : ~OnValidSheet(p)
            THEN SignalLeftAlone(s)
            ELSE /\ s \in LabeledSignals
                 /\ \E info \in Range(wire.signal_data) :
                       /\ info.signal_name = s
                       /\ [wire_number |-> info.base_wire_number, x_coord |-> info.x_coord,
                           y_coord |-> info.y_coord] \in Candidates(s)
                       /\ \A cand \in Candidates(s) :
                             ~KeyLess(wire_number_sort_key(cand.wire_number),
                                      wire_number_sort_key(info.base_wire_number))

\* a finished run that left alone a signal whose pin is on no sheet,
\* labeled a signal "1UNKNOWN" after a pin without grid data and another
\* one "UNKNOWNA5" after a pin whose sheet name cannot be read
C18_Witness ==
    /\ pc = "done"
    /\ \E s \in CollectedSignals :
          PinsOfSignal(s) # {} /\ SignalLeftAlone(s)
    /\ \E e \in Range(wire.assigned) :
          e.unique_wire_number = <<"1", "U", "N", "K", "N", "O", "W", "N">>
    /\ \E w \in Range(writes) :
          w.value = <<"U", "N", "K", "N", "O", "W", "N", "A", "5">> /\ w.ids # {}

----------------------------------------------------------------------------
\* a label with a digit that int() does not accept
HasNonDecimalDigit(label) == Contains(label, SuperscriptTwo)

(* C19: the sort key of a wire number that cannot be parsed is not smaller *)
(* than the sort key of any wire number that can, so the unparsable wire   *)
(* number sorts after it and is not chosen as base before it.              *)
C19_UnparsableSortsLast ==
    codec.stage = "keyed" =>
        \A m, n \in 1..2 :
            (HasNonDecimalDigit(codec.label[m]) /\ ~HasNonDecimalDigit(codec.label[n]))
                => /\ Len(codec.key[m]) = 4
                   /\ ~KeyLess(codec.key[m], codec.key[n])

----------------------------------------------------------------------------
\* the net segments whose "Wire number" cannot be written
UnwritableSegments ==
    {TrunkSegment(n) : n \in {m \in NetIds : NetTable[m].locked \/ NetTable[m].refuses}}

\* the number of net segments the writes were attempted on
RECURSIVE Attempted(_)
Attempted(ws) ==
    IF ws = <<>> THEN 0 ELSE Cardinality(Head(ws).ids) + Attempted(Tail(ws))

\* the number of those that could not be written
RECURSIVE Unwritten(_)
Unwritten(ws) ==
    IF ws = <<>> THEN 0
    ELSE Cardinality(Head(ws).ids \cap UnwritableSegments) + Unwritten(Tail(ws))

\* at the end of a wire numbering run every signal with a base has been
\* labeled, every net segment that can be written carries the label of its
\* signal, the others carry what they had, and the reported count is the
\* number of segments written
SegmentWritesAccounted ==
    pc = "done" =>
        /\ \A info \in Range(wire.signal_data) :
              /\ info.signal_name \in LabeledSignals
              /\ \E w \in Range(writes) :
                    /\ w.ids = info.net_segment_ids
                    /\ w.value = FinalWireNumber(info.signal_name)
        /\ \A w \in Range(writes) : \A seg \in w.ids :
              attr[seg] = IF seg \in UnwritableSegments THEN OldWireNumber ELSE w.value
        /\ wire.updated_count = Attempted(writes) - Unwritten(writes)

\* at the end of a device run every device of the final designations whose
\* SetName succeeds carries its final designation, the others carry the
\* name they had, and the reported count is the number of devices renamed
DeviceWritesAccounted ==
    pc = "device_done" =>
        /\ \A e \in Range(dev.final_designations) :
              /\ \E w \in Range(writes) : w.ids = {e.key} /\ w.value = e.value
              /\ names[e.key] = IF DeviceTable[e.key].set_name = "ok" THEN e.value
                                ELSE OldName
        /\ dev.designation_success_count =
              Cardinality({e \in Range(dev.final_designations) :
                              DeviceTable[e.key].set_name = "ok"})

(* C20: a write that fails does not stop the run: every other net segment  *)
(* or device is still written with its final label, and the reported       *)
(* number of successes is the number of entities attempted less the number *)
(* of failed writes.                                                       *)
C20_FailedWriteNotCounted == SegmentWritesAccounted /\ DeviceWritesAccounted

----------------------------------------------------------------------------
\* run() has returned and there was nothing to work on
NothingToDo ==
    /\ pc = "returned"
    /\ ~session.available \/ (Len(snap) = 0 /\ dsnap = {})

NothingDone ==
    /\ writes = <<>>
    /\ wire.assigned = <<>> /\ dev.final_designations = <<>>
    /\ \A seg \in SegmentIds : attr[seg] = OldWireNumber
    /\ \A d \in DeviceIds : names[d] = OldName

----------------------------------------------------------------------------
(* C22: every run returns: run() eventually returns True or False, with    *)
(* whatever calls of the collaborator raising, and on its way it writes    *)
(* each signal and each device at most once.                               *)
C22_RunReturns ==
    /\ <>(pc = "returned" /\ session.result \in {"True", "False"})
    /\ [](Len(writes) <= Len(snap) + Cardinality(dsnap))

\* run() has returned after the listing query raised, or after a write
\* raised or was refused
C22_Witness ==
    /\ pc = "returned"
    /\ session.result = "True"
    /\ \/ session.listing = "raises" /\ (Len(snap) > 0 \/ dsnap # {})
       \/ \E w \in Range(writes) : w.failed # {}

----------------------------------------------------------------------------
\* the phases in the order of the code: collecting and filtering, computing
\* the bases, grouping, resolving and writing, finished
PhaseRank(position) ==
    CASE position \in {"first_pass", "device_first_pass"} -> 1
      [] position \in {"second_pass", "device_second_pass"} -> 2
      [] position \in {"group_signals", "device_resolve"} -> 3
      [] position \in {"third_pass", "device_update"} -> 4
      [] position \in {"done", "device_done"} -> 5

\* a step that calls SetAttributeValue or SetName
WritingStep == writes' # writes

\* what the run has read from the collaborator and derived from it
Gathered ==
    <<wire.signal_connections, wire.signal_data, wire.wire_number_groups,
      dev.non_terminal_devices, dev.device_data, dev.designations>>

\* the final label of every entity of the run is known
AllResolved ==
    /\ Len(wire.assigned) = Len(wire.signal_data)
    /\ Len(dev.final_designations) = Len(dev.device_data)

(* C23 as stated: no step writes to the collaborator before the final      *)
(* labels of all entities of the run have been resolved; the label the     *)
(* writing step resolves itself counts as resolved.                        *)
C23_NoWriteBeforeAllResolved ==
    [][WritingStep =>
          /\ Len(wire.assigned') = Len(wire.signal_data)
          /\ Len(dev.final_designations) = Len(dev.device_data)]_vars

(* C23, amended: the phases are passed in the order of the code and never  *)
(* entered again; a step writes only in the last phase, when everything    *)
(* the run reads and derives from the collaborator is complete, and it     *)
(* changes none of it; the device run has resolved every final designation *)
(* before its first write, the wire run resolves the final wire number of  *)
(* a signal in the step that writes it.                                    *)
C23_PhasesInOrder ==
    [][/\ PhaseRank(pc') >= PhaseRank(pc)
       /\ WritingStep =>
             /\ PhaseRank(pc) = 4
             /\ Gathered' = Gathered
             /\ pc = "device_update" => AllResolved /\ dev.final_designations' = dev.final_designations
             /\ pc = "third_pass" => Len(wire.assigned') = Len(writes')
       /\ ~WritingStep => (PhaseRank(pc') > PhaseRank(pc) /\ attr' = attr /\ names' = names)]_vars

\* a finished wire run that resolved the wire number of its second signal
\* after it had written the first
C23_Witness ==
    /\ pc = "done"
    /\ Len(writes) >= 2
    /\ Len(wire.assigned) = Len(writes)
    /\ writes[1].value # writes[2].value

----------------------------------------------------------------------------
\* the devices, neither terminal nor cable, that have no symbol or whose
\* first symbol is on no sheet, on a sheet without a readable name, or has
\* no grid text
UnplacedDevices == {d \in RegularDevices : ~FirstSymbolPlaced(d)}

(* C24: a device that is neither terminal nor cable and has no symbol, or  *)
(* whose first symbol has no valid sheet or no grid, has no base and no     *)
(* final designation, SetName is never called on it and it keeps its name; *)
(* once the bases are computed devices_without_symbols is the number of     *)
(* these devices, and at the end of the run every other device that is not *)
(* a terminal has its final designation and has been written.              *)
C24_UnplacedDeviceLeftAlone ==
    /\ \A d \in UnplacedDevices :
          /\ ~HasBase(d)
          /\ d \notin DesignatedDevices
          /\ \A w \in Range(writes) : d \notin w.ids
          /\ names[d] = OldName
    /\ BasesComputed => dev.devices_without_symbols = Cardinality(UnplacedDevices)
    /\ pc = "device_done" =>
          \A d \in (dsnap \ TerminalDevices) \ UnplacedDevices :
              /\ d \in DesignatedDevices
              /\ \E w \in Range(writes) : d \in w.ids /\ w.value = FinalDesignation(d)

\* a finished run over a device without symbols, a device whose first
\* symbol has no grid text and a device that was renamed
C24_Witness ==
    /\ pc = "device_done"
    /\ \E d \in UnplacedDevices : DeviceTable[d].symbols = <<>>
    /\ \E d \in UnplacedDevices :
          DeviceTable[d].symbols # <<>> /\ FirstSymbol(d).sheet > 0
    /\ \E d \in dsnap : names[d] # OldName
    /\ dev.devices_without_symbols = 2

----------------------------------------------------------------------------
RunAllOrder == <<"wire", "device", "terminal">>

(* C25: the operations a Run All worker has started are Wire Numbers,      *)
(* Device Designation, Terminal Pin Names in this order, each but the      *)
(* first started after the one before has returned success; after an       *)
(* operation that failed the worker starts no other.                       *)
C25_RunAllInOrder ==
    \A w \in 1..Len(gui.workers) :
        gui.workers[w].kind = "all" =>
            LET calls == gui.workers[w].calls
            IN  /\ Len(calls) <= 3
                /\ \A k \in 1..Len(calls) :
                      /\ calls[k].op = RunAllOrder[k]
                      /\ k > 1 => calls[k - 1].success = "True"

\* a Run All worker that has finished after Device Designation failed
\* and another one that has run all three
C25_Witness ==
    /\ \E w \in 1..Len(gui.workers) :
          /\ gui.workers[w].kind = "all" /\ gui.workers[w].at = "finished"
          /\ Len(gui.workers[w].calls) = 2
          /\ gui.workers[w].calls[2].success = "False"
    /\ \E w \in 1..Len(gui.workers) :
          /\ gui.workers[w].kind = "all" /\ gui.workers[w].at = "finished"
          /\ Len(gui.workers[w].calls) = 3

----------------------------------------------------------------------------
\* the worker threads that have been started and have not finished
ActiveWorkers == {w \in 1..Len(gui.workers) : gui.workers[w].at # "finished"}

(* C27: at most one automation worker thread is active at any time: a      *)
(* press made while an operation is started and not finished starts no     *)
(* second thread.                                                          *)
C27_AtMostOneWorker == Cardinality(ActiveWorkers) <= 1

----------------------------------------------------------------------------
\* the pins of the terminal devices of the project
PinsOfTerminals ==
    UNION {{TerminalProject.devices[term.listing[k]].pins[j] :
                j \in 1..Len(TerminalProject.devices[term.listing[k]].pins)} :
           k \in {k \in 1..Len(term.listing) :
                     LET d == TerminalProject.devices[term.listing[k]]
                     IN  d.is_terminal = 1 \/ d.is_terminal_block = 1}}

\* the net segment has a "Wire number" that can be read and is not blank
NonBlank(seg) ==
    /\ term.wire_number[seg] # Raises
    /\ Strip(term.wire_number[seg]) # <<>>

\* the positions of the connected net segments that have a wire number
Numbered(pin) ==
    {k \in 1..Len(TerminalProject.pins[pin].segments) :
        NonBlank(TerminalProject.pins[pin].segments[k])}

\* the "Wire number" of the first connected net segment that has one
FirstNumbered(pin) ==
    LET first == CHOOSE k \in Numbered(pin) : \A j \in Numbered(pin) : k <= j
    IN  term.wire_number[TerminalProject.pins[pin].segments[first]]

SetNameCalled(pin, name) ==
    \E k \in 1..Len(term.set_calls) :
        term.set_calls[k].pin = pin /\ term.set_calls[k].name = name

\* the rest of the statement: other pins keep their names, and no SetName
\* on a pin whose name is the wire number already
OtherPinsKept ==
    /\ \A pin \in TerminalPinIds :
          (pin \notin PinsOfTerminals \/ Numbered(pin) = {}) =>
              /\ term.pin_name[pin] = term.old_name[pin]
              /\ \A k \in 1..Len(term.set_calls) : term.set_calls[k].pin # pin
    /\ \A pin \in PinsOfTerminals :
          Numbered(pin) # {} =>
              (term.old_name[pin] = Strip(FirstNumbered(pin))
                  => \A k \in 1..Len(term.set_calls) : term.set_calls[k].pin # pin)

(* C26, as stated: after process_all_terminal_pins every pin of a terminal *)
(* device with a connected net segment that has a non-blank wire number is *)
(* named by the wire number of the first such segment; the other pins keep *)
(* their names and an equal name is not set again.                         *)
C26_PinNamedByWireNumber ==
    pc = "terminal_done" =>
        /\ \A pin \in PinsOfTerminals :
              Numbered(pin) # {} => term.pin_name[pin] = FirstNumbered(pin)
        /\ OtherPinsKept

(* C26, amended: the name asked for is the wire number of the first such   *)
(* segment without its surrounding whitespace, and the pin has it when it  *)
(* had it before or SetName returned 1; a pin whose SetName did not        *)
(* succeed keeps its name.                                                 *)
C26_PinNamedByStrippedWireNumber ==
    pc = "terminal_done" =>
        /\ \A pin \in PinsOfTerminals :
              Numbered(pin) # {} =>
                  LET wire_number == Strip(FirstNumbered(pin))
                  IN  IF term.old_name[pin] = wire_number
                         \/ TerminalProject.pins[pin].set_name = 1
                      THEN term.pin_name[pin] = wire_number
                      ELSE /\ term.pin_name[pin] = term.old_name[pin]
                           /\ SetNameCalled(pin, wire_number)
        /\ OtherPinsKept

\* a pin renamed after its second net segment because the first is blank,
\* a pin that had the name already, and a pin whose SetName was refused
C26_Witness ==
    /\ pc = "terminal_done"
    /\ {1, 2, 3} \subseteq PinsOfTerminals
    /\ ~NonBlank(1) /\ NonBlank(2) /\ NonBlank(3)
    /\ term.wire_number[2] # term.wire_number[3]
    /\ term.old_name[1] = OldName /\ term.pin_name[1] = Strip(term.wire_number[2])
    /\ term.old_name[2] = Strip(term.wire_number[3])
    /\ term.pin_name[3] = term.old_name[3] /\ SetNameCalled(3, Strip(term.wire_number[2]))

----------------------------------------------------------------------------
\* the cables and the regular devices that have a base designation
CablesWithBase == {d \in dsnap \ TerminalDevices : DeviceTable[d].is_cable = 1 /\ HasBase(d)}

RegularWithBase == {d \in RegularDevices : HasBase(d)}

CableBasesDistinct ==
    \A c, d \in CablesWithBase : c # d => BaseDesignation(c) # BaseDesignation(d)

----------------------------------------------------------------------------
\* the fixed-label check cannot be completed for the connection
CheckIncomplete(c) == GetNetId(c) <= 0 \/ NetTable[GetNetId(c)].fix = Raises

(* C29: for a connection whose fixed-label check cannot be completed (no   *)
(* positive net id, or reading FixWireName raises)                         *)
(* has_fix_wire_name_attribute is false and the connection is processed    *)
(* like any other: with a signal name it is in the connection list of its  *)
(* signal, and once its signal is labeled a write of the final wire number *)
(* has been issued for each of its net segments, which carry it unless the *)
(* write failed.                                                           *)
C29_UncheckedConnectionProcessed ==
    \A c \in 1..Len(snap) :
        CheckIncomplete(c) =>
            /\ ~has_fix_wire_name_attribute(c)
            /\ (FirstPassOver /\ GetSignalName(c) # "") => ~SkippedConnection(c)
            /\ (pc = "done" /\ GetSignalName(c) \in LabeledSignals) =>
                  \A seg \in Range(GetNetSegmentIds(c)) :
                      \E w \in Range(writes) :
                          /\ seg \in w.ids
                          /\ w.value = FinalWireNumber(GetSignalName(c))
                          /\ seg \notin w.failed => attr[seg] = w.value

\* a finished run with a connection without net and a connection whose
\* FixWireName cannot be read, both overwritten with their signals' labels
C29_Witness ==
    /\ pc = "done"
    /\ \E c, d \in 1..Len(snap) :
          /\ GetNetId(c) = 0 /\ GetNetId(d) > 0 /\ NetTable[GetNetId(d)].fix = Raises
          /\ {GetSignalName(c), GetSignalName(d)} \subseteq LabeledSignals
          /\ attr[OwnSegment(c)] = FinalWireNumber(GetSignalName(c))
          /\ attr[OwnSegment(d)] = FinalWireNumber(GetSignalName(d))
          /\ attr[TrunkSegment(GetNetId(d))] = FinalWireNumber(GetSignalName(d))

----------------------------------------------------------------------------
\* the script has finished after the library on the same project
BothDone == pc = "done" /\ previous.runs = 1

NoFixedFlag == \A c \in 1..Len(snap) : ~has_fix_wire_name_attribute(c)

(* C30: on a project in which no net carries a fixed-label flag the script *)
(* and the library assign the same final wire number to every signal and   *)
(* leave the same "Wire number" on every net segment.                      *)
C30_LegacyAgreesWithLibrary ==
    (BothDone /\ NoFixedFlag) =>
        /\ Range(wire.assigned) = Range(previous.assigned)
        /\ attr = previous.attr

====
